---------------------------- MODULE Spec2Model ----------------------------
(***************************************************************************)
(* A model of foxglove-lunar-lander: the input conditioner (controls.rs,   *)
(* gamepad.rs, listener.rs), the rate controller (lander/controllers.rs),  *)
(* the flight dynamics and the landing evaluator (lander.rs, landing.rs),  *)
(* and the game loop of main.rs with its own Lander and SharedControls.    *)
(*                                                                         *)
(* Units.  Axis values and control deltas are fixed point, in hundredths   *)
(* (0.10 is 10, 1.0 is 100).  Instants and durations are milliseconds.     *)
(* An f32 is a record: a finite value in hundredths, an infinity or NaN;   *)
(* results beyond FMax, the model's f32::MAX, overflow to an infinity.     *)
(***************************************************************************)
EXTENDS Integers, Sequences, FiniteSets, TLC

VARIABLES
    state,      \* controls.rs State, the value behind Controls.state (RwLock)
    now,        \* the monotonic clock read by Instant::now()
    hist,       \* history of the samples given to the buttons and of the drains
    listener,   \* outcome of the last on_message_data call
    tick,       \* the tick loop: its position in step() and the values it read
    ctl,        \* a VerticalVelocityController and the last throttle it returned
    lander,     \* lander.rs Lander
    last,       \* what the last step() call was given and computed
    report,     \* the landing report last published, if any
    trail,      \* what log_landing_report returned and LandingReport::new made, in order
    game,       \* main.rs: the game loop, its Lander, its SharedControls and its Listener
    axis,       \* one conditioned axis reading: what was read, how, and the result
    terrain,    \* landscape/height_map.rs HeightMap and the landing zone asked for
    registry    \* parameters.rs Registry and what the last set_parameters returned

controlVars == <<state, now, hist, listener, tick>>

\* The parts that stand alone: the axis reading, the terrain, the parameters.
auxVars == <<axis, terrain, registry>>

flightVars == <<lander, last, report, trail, game, auxVars>>

vars == <<state, now, hist, listener, tick, ctl, lander, last, report, trail, game, auxVars>>

-----------------------------------------------------------------------------
(* Bounds of the model. *)

\* The clock stops advancing here.
MaxTime == 300

\* The clock advances by this much between two events.
StepMs == 50

\* Button counters and history counters stop growing here.
MaxCount == 3

\* The number of compute_throttle and adjust_target calls made on the controller.
MaxCalls == 4

\* The number of step() calls made on the lander.
MaxSteps == 4

\* The number of landing reports made of one vehicle.
MaxReports == 2

\* Turns of the game loop and payloads given to its listener.
MaxTicks == 3

MaxMsgs == 2

\* Calls of soft_reset and hard_reset.
MaxResets == 2

\* The width and depth of the height map the carving is followed on (the
\* program makes it 200 wide), and the number of seeds it is made from.
TerrainWidth == 30

MaxSeed == 10

\* Calls of Parameters::set.
MaxSets == 2

-----------------------------------------------------------------------------
(* Option<T> *)

None == [some |-> FALSE, val |-> 0]

Some(v) == [some |-> TRUE, val |-> v]

-----------------------------------------------------------------------------
(* controls.rs: Button *)

\* Duration::from_millis(100), the repeat interval of the up/down buttons.
RepeatMs == 100

ButtonDefault == [pressed |-> FALSE, count |-> 0, timeout |-> None, deadline |-> None]

ButtonWithRepeater(timeout) == [ButtonDefault EXCEPT !.timeout = Some(timeout)]

\* Button::update without the edge detection: every true sample counts.
ButtonUpdateLevel(b, pressed, t) ==
    IF pressed
    THEN [b EXCEPT !.pressed = TRUE, !.count = @ + 1]
    ELSE [b EXCEPT !.pressed = FALSE]

\* Button::update.  The first test is the code's: deadline > Instant::now().
ButtonUpdate(b, pressed, t) ==
    LET b1 == IF b.deadline.some /\ b.deadline.val > t
              THEN [b EXCEPT !.pressed = FALSE, !.deadline = None]
              ELSE b
    IN  IF pressed /\ ~b1.pressed
        THEN [b1 EXCEPT !.pressed = TRUE,
                        !.count = @ + 1,
                        !.deadline = IF b1.timeout.some
                                     THEN Some(t + b1.timeout.val)
                                     ELSE @]
        ELSE IF ~pressed /\ b1.pressed
        THEN [b1 EXCEPT !.pressed = FALSE]
        ELSE b1

ButtonGet(b) == b.count

\* Button::get_and_reset without the reset: the count is returned and kept.
ButtonGetAndKeep(b) == [value |-> b.count, button |-> b]

\* Button::reset that forgets the press whether hard or not.
ButtonResetAlwaysHard(b, hard) == [b EXCEPT !.count = 0, !.pressed = FALSE, !.deadline = None]

\* Button::reset
ButtonReset(b, hard) ==
    IF hard
    THEN [b EXCEPT !.count = 0, !.pressed = FALSE, !.deadline = None]
    ELSE [b EXCEPT !.count = 0]

\* Button::get_and_reset: the value returned and the button left behind.
ButtonGetAndReset(b) == [value |-> b.count, button |-> [b EXCEPT !.count = 0]]

-----------------------------------------------------------------------------
(* gamepad.rs: Gamepad and GamepadMsg.  Indices are the Rust indices + 1.   *)

DEFAULT_JOYSTICK_DEAD_ZONE == 10

\* A gamepad configuration (the JSON file read by Gamepad::from_json_file).
gamepad ==
    [map |-> [axis_strafe_x |-> 1, axis_strafe_y |-> 2,
              axis_roll |-> 3, axis_pitch |-> 4,
              button_yaw_left |-> 1, button_yaw_right |-> 2,
              button_vertical_velocity_up |-> 3,
              button_vertical_velocity_down |-> 4,
              button_start |-> 5],
     joystick_dead_zone |-> None]

Abs(x) == IF x < 0 THEN -x ELSE x

Clamp(x, lo, hi) == IF x < lo THEN lo ELSE IF x > hi THEN hi ELSE x

\* Indexing a Vec panics when the index is out of range.
InRange(seq, idx) == idx \in 1..Len(seq)

\* GamepadMsg::read_axis: self.axes[idx].clamp(-1.0, 1.0)
MsgReadAxis(msg, idx) == Clamp(msg.axes[idx], -100, 100)

\* GamepadMsg::read_button: self.buttons[idx] > 0.0
MsgReadButton(msg, idx) == msg.buttons[idx] > 0

\* Gamepad::read_axis of a gamepad with the given joystick_dead_zone.
ReadAxis(joystick_dead_zone, msg, idx) ==
    LET raw == MsgReadAxis(msg, idx)
        dead_zone == IF joystick_dead_zone.some
                     THEN joystick_dead_zone.val
                     ELSE DEFAULT_JOYSTICK_DEAD_ZONE
    IN  IF Abs(raw) < dead_zone THEN 0 ELSE raw

\* Gamepad::read_axis
GamepadReadAxis(msg, idx) == ReadAxis(gamepad.joystick_dead_zone, msg, idx)

read_strafe_x(msg) == GamepadReadAxis(msg, gamepad.map.axis_strafe_x)

read_strafe_y(msg) == GamepadReadAxis(msg, gamepad.map.axis_strafe_y)

read_pitch(msg) == -GamepadReadAxis(msg, gamepad.map.axis_pitch)

read_roll(msg) == -GamepadReadAxis(msg, gamepad.map.axis_roll)

read_yaw_left(msg) == MsgReadButton(msg, gamepad.map.button_yaw_left)

read_yaw_right(msg) == MsgReadButton(msg, gamepad.map.button_yaw_right)

read_vertical_velocity_up(msg) ==
    MsgReadButton(msg, gamepad.map.button_vertical_velocity_up)

read_vertical_velocity_down(msg) ==
    MsgReadButton(msg, gamepad.map.button_vertical_velocity_down)

read_start(msg) == MsgReadButton(msg, gamepad.map.button_start)

-----------------------------------------------------------------------------
(* controls.rs: State and Controls *)

StateDefault ==
    [reset |-> ButtonDefault,
     strafe |-> <<0, 0>>,
     rotate |-> <<0, 0, 0>>,
     vertical_velocity_up |-> ButtonWithRepeater(RepeatMs),
     vertical_velocity_down |-> ButtonWithRepeater(RepeatMs)]

(***************************************************************************)
(* Controls::update_from_msg, run under the write lock.  The statements    *)
(* run in the code's order; an index a message lacks panics at the read,   *)
(* so what was assigned before the read stays assigned.  The result is the *)
(* State left behind, whether the call returned (ok) or panicked, and the  *)
(* number of assignments it completed (stage).                             *)
(***************************************************************************)
UpdateFromMsgResult(st, msg, t) ==
    LET m == gamepad.map
        Panic(s, n) == [st |-> s, ok |-> FALSE, stage |-> n]
    IN  IF ~InRange(msg.buttons, m.button_start) THEN Panic(st, 0) ELSE
        LET s1 == [st EXCEPT !.reset = ButtonUpdate(@, read_start(msg), t)]
        IN  IF ~InRange(msg.axes, m.axis_strafe_x)
               \/ ~InRange(msg.axes, m.axis_strafe_y) THEN Panic(s1, 1) ELSE
        LET s2 == [s1 EXCEPT !.strafe = <<read_strafe_x(msg), read_strafe_y(msg)>>]
        IN  IF ~InRange(msg.buttons, m.button_yaw_left)
               \/ ~InRange(msg.buttons, m.button_yaw_right)
               \/ ~InRange(msg.axes, m.axis_pitch)
               \/ ~InRange(msg.axes, m.axis_roll) THEN Panic(s2, 2) ELSE
        LET yaw == IF read_yaw_left(msg) /\ ~read_yaw_right(msg) THEN 50
                   ELSE IF ~read_yaw_left(msg) /\ read_yaw_right(msg) THEN -50
                   ELSE 0
            s3 == [s2 EXCEPT !.rotate = <<read_pitch(msg), read_roll(msg), yaw>>]
        IN  IF ~InRange(msg.buttons, m.button_vertical_velocity_up)
            THEN Panic(s3, 3) ELSE
        LET s4 == [s3 EXCEPT !.vertical_velocity_up =
                       ButtonUpdate(@, read_vertical_velocity_up(msg), t)]
        IN  IF ~InRange(msg.buttons, m.button_vertical_velocity_down)
            THEN Panic(s4, 4) ELSE
        [st |-> [s4 EXCEPT !.vertical_velocity_down =
                     ButtonUpdate(@, read_vertical_velocity_down(msg), t)],
         ok |-> TRUE,
         stage |-> 5]

\* Controls::strafe and Controls::rotate: one read lock each.
ControlsStrafe(st) == st.strafe

ControlsRotate(st) == st.rotate

\* Controls::get_and_reset_vertical_velocity_delta, run under the write lock:
\* 0.2 * (up - down), in hundredths.
GetAndResetVerticalVelocityDelta(st) ==
    LET up == ButtonGetAndReset(st.vertical_velocity_up)
        down == ButtonGetAndReset(st.vertical_velocity_down)
    IN  [value |-> 20 * (up.value - down.value),
         up |-> up.value,
         down |-> down.value,
         st |-> [st EXCEPT !.vertical_velocity_up = up.button,
                           !.vertical_velocity_down = down.button]]

\* Controls::get_reset_requested
GetResetRequested(st) == ButtonGet(st.reset) > 0

\* Controls::reset, under the write lock; hard_reset is reset(true) and
\* soft_reset is reset(false).
ControlsReset(st, hard) ==
    [st EXCEPT !.reset = ButtonReset(@, hard),
               !.strafe = <<0, 0>>,
               !.rotate = <<0, 0, 0>>,
               !.vertical_velocity_up = ButtonReset(@, hard),
               !.vertical_velocity_down = ButtonReset(@, hard)]

-----------------------------------------------------------------------------
(* f32 arithmetic.  A value is [k |-> "fin", v |-> hundredths],             *)
(* [k |-> "inf", v |-> 1 or -1] or [k |-> "nan", v |-> 0].  Finite results   *)
(* are truncated to hundredths; a result beyond FMax is an infinity, as a  *)
(* result beyond f32::MAX is.                                              *)

\* The largest finite value, in hundredths: the model's f32::MAX.
FMax == 1000000000

F(n) == [k |-> "fin", v |-> n]

NaN == [k |-> "nan", v |-> 0]

Inf(sign) == [k |-> "inf", v |-> sign]

IsFinite(x) == x.k = "fin"

IsNaN(x) == x.k = "nan"

Sign(n) == IF n < 0 THEN -1 ELSE IF n > 0 THEN 1 ELSE 0

\* Division that truncates toward zero.
TruncDiv(a, b) == Sign(a) * Sign(b) * (Abs(a) \div Abs(b))

\* A finite result, or the infinity it overflows to.  As in f32, a result less
\* than half a unit in the last place (2^-25 of FMax) beyond FMax rounds to FMax.
Rounded(n) ==
    IF Abs(n) > FMax + FMax \div 33554432 THEN Inf(Sign(n))
    ELSE IF Abs(n) > FMax THEN F(Sign(n) * FMax)
    ELSE F(n)

FNeg(x) == IF IsNaN(x) THEN NaN ELSE [x EXCEPT !.v = -@]

FAdd(x, y) ==
    IF IsNaN(x) \/ IsNaN(y) THEN NaN
    ELSE IF x.k = "inf" /\ y.k = "inf" THEN (IF x.v = y.v THEN x ELSE NaN)
    ELSE IF x.k = "inf" THEN x
    ELSE IF y.k = "inf" THEN y
    ELSE Rounded(x.v + y.v)

FSub(x, y) == FAdd(x, FNeg(y))

FMul(x, y) ==
    IF IsNaN(x) \/ IsNaN(y) THEN NaN
    ELSE IF x.k = "inf" \/ y.k = "inf"
    THEN (IF x.v = 0 \/ y.v = 0 THEN NaN ELSE Inf(Sign(x.v) * Sign(y.v)))
    ELSE LET a == Abs(x.v)
             b == Abs(y.v)
             sg == Sign(x.v) * Sign(y.v)
         IN  IF a = 0 \/ b = 0 THEN F(0)
             ELSE IF (a \div 100) > FMax \div b THEN Inf(sg)
             ELSE Rounded(sg * ((a \div 100) * b + (a % 100) * (b \div 100)
                                + ((a % 100) * (b % 100)) \div 100))

FDiv(x, y) ==
    IF IsNaN(x) \/ IsNaN(y) THEN NaN
    ELSE IF x.k = "inf" /\ y.k = "inf" THEN NaN
    ELSE IF x.k = "inf" THEN Inf(x.v * (IF y.v < 0 THEN -1 ELSE 1))
    ELSE IF y.k = "inf" THEN F(0)
    ELSE IF y.v = 0 THEN (IF x.v = 0 THEN NaN ELSE Inf(Sign(x.v)))
    ELSE LET a == Abs(x.v)
             b == Abs(y.v)
             sg == Sign(x.v) * Sign(y.v)
         IN  IF b >= 1000000 THEN F(sg * (a \div (b \div 100)))
             ELSE IF (a \div b) > FMax \div 100 THEN Inf(sg)
             ELSE Rounded(sg * ((a \div b) * 100 + ((a % b) * 100) \div b))

\* x < y and x > y on f32: false when either is NaN.
FLt(x, y) ==
    /\ ~IsNaN(x)
    /\ ~IsNaN(y)
    /\ IF x.k = "inf" THEN x.v < 0 /\ ~(y.k = "inf" /\ y.v < 0)
       ELSE IF y.k = "inf" THEN y.v > 0
       ELSE x.v < y.v

FGt(x, y) == FLt(y, x)

FLe(x, y) == ~IsNaN(x) /\ ~IsNaN(y) /\ ~FLt(y, x)

\* f32::clamp: NaN stays NaN.
FClamp(x, lo, hi) == IF FLt(x, lo) THEN lo ELSE IF FGt(x, hi) THEN hi ELSE x

\* f32::max without the comparison: the first argument is returned.
FKeep(x, y) == x

\* f32::max: when one argument is NaN the other is returned.
FMaxOf(x, y) == IF IsNaN(x) THEN y ELSE IF IsNaN(y) THEN x ELSE IF FLt(x, y) THEN y ELSE x

(***************************************************************************)
(* cos of an angle in hundredths of a radian, in hundredths: the even      *)
(* series to x^6 on [0, pi/2], reflected beyond (pi is 314).  No f32 is an *)
(* odd multiple of pi/2, so f32::cos never returns 0: where the series     *)
(* truncates to 0 the result is the smallest value of the quadrant's sign. *)
(***************************************************************************)
CosSeries(x) ==
    LET x2 == (x * x) \div 100
        x4 == (x2 * x2) \div 100
        x6 == (x4 * x2) \div 100
    IN  100 - (x2 \div 2) + (x4 \div 24) - (x6 \div 720)

Cos100(a) ==
    LET r == Abs(a) % 628
        h == IF r > 314 THEN 628 - r ELSE r
    IN  IF 2 * h <= 314
        THEN (IF CosSeries(h) <= 0 THEN 1 ELSE CosSeries(h))
        ELSE (IF CosSeries(314 - h) <= 0 THEN -1 ELSE -CosSeries(314 - h))

\* f32::cos of a finite angle.
FCos(x) == IF IsFinite(x) THEN F(Cos100(x.v)) ELSE NaN

-----------------------------------------------------------------------------
(* lander/controllers.rs *)

\* Moon gravitational constant in m/s^2, in hundredths (lander.rs).
MOON_GRAVITY == -162

\* PidController::new
PidNew(kp, ki, kd) == [kp |-> kp, ki |-> ki, kd |-> kd, prev_error |-> F(0), integral |-> F(0)]

\* PidController::update: the control value and the controller left behind.
PidUpdate(pid, setpoint, measured, dt) ==
    LET error == FSub(setpoint, measured)
        integral == FAdd(pid.integral, FMul(error, dt))
        derivative == FDiv(FSub(error, pid.prev_error), dt)
    IN  [value |-> FAdd(FAdd(FMul(pid.kp, error), FMul(pid.ki, integral)),
                        FMul(pid.kd, derivative)),
         pid |-> [pid EXCEPT !.integral = integral, !.prev_error = error]]

\* VerticalVelocityController::new, with the gains 0.8, 0.05, 0.3.
RodNew(target, thrust) ==
    [pid |-> PidNew(F(80), F(5), F(30)), target |-> target, thrust |-> thrust]

RodTarget(rod) == rod.target

\* adjust_target that keeps the target within 0.3 m/s of zero.
RodAdjustTargetClamped(rod, delta) ==
    [rod EXCEPT !.target = FClamp(FAdd(@, delta), F(-30), F(30))]

\* VerticalVelocityController::adjust_target
RodAdjustTarget(rod, delta) == [rod EXCEPT !.target = FAdd(@, delta)]

\* VerticalVelocityController::compute_throttle: the throttle and the
\* controller left behind.
ComputeThrottle(rod, current, mass, tilt, dt) ==
    LET u == PidUpdate(rod.pid, rod.target, current, dt)
        desired_accel == u.value
        total_vertical_accel == FAdd(F(MOON_GRAVITY), desired_accel)
        required_vertical_force == FMul(mass, total_vertical_accel)
        throttle == FDiv(required_vertical_force, FMul(rod.thrust, FCos(tilt)))
    IN  [value |-> FClamp(throttle, F(0), F(100)),
         rod |-> [rod EXCEPT !.pid = u.pid]]

-----------------------------------------------------------------------------
(* lander.rs: the vehicle.  Vectors are triples of f32.  The orientation is *)
(* the angle of a rotation about the X axis, in hundredths of a radian:    *)
(* the model's steps pitch the vehicle about X only, and the product of    *)
(* rotations about one axis is the rotation by the sum of the angles.      *)

\* Base mass, payload mass and initial descent fuel mass in kg, in hundredths.
APOLLO_LANDER_DRY_MASS_KG == 215000

APOLLO_LANDER_PAYLOAD_MASS_KG == 455000

APOLLO_LANDER_INITIAL_FUEL_MASS_KG == 60000

\* Main descent thrust in newtons, in hundredths.
APOLLO_LANDER_DCS_THRUST_N == 4500000

\* Fuel burn rate at full thrust in kg/s, in hundredths.
APOLLO_LANDER_FUEL_BURN_RATE_KGPS == 1500

\* RCS thrust in newtons and RCS torque in newton-meters, in hundredths.
APOLLO_LANDER_RCS_THRUST_N == 88000

APOLLO_LANDER_RCS_TORQUE_NM == 370000

\* (3 * 2.1^2 + 7^2) / 12 = 5.19 about X and Y, 2.1^2 / 2 = 2.21 about Z.
APOLLO_LANDER_INERTIA == <<F(519), F(519), F(221)>>

ZERO == <<F(0), F(0), F(0)>>

\* Vec3 + Vec3, Vec3 * f32, Vec3 / f32 and Vec3 / Vec3 (component-wise).
VAdd(a, b) == <<FAdd(a[1], b[1]), FAdd(a[2], b[2]), FAdd(a[3], b[3])>>

VScale(a, s) == <<FMul(a[1], s), FMul(a[2], s), FMul(a[3], s)>>

VDivS(a, s) == <<FDiv(a[1], s), FDiv(a[2], s), FDiv(a[3], s)>>

VDiv(a, b) == <<FDiv(a[1], b[1]), FDiv(a[2], b[2]), FDiv(a[3], b[3])>>

\* f32::sin of a finite angle: sin 0 is 0, elsewhere cos shifted by pi/2.
FSin(x) ==
    IF ~IsFinite(x) THEN NaN
    ELSE IF x.v = 0 THEN F(0)
    ELSE F(Cos100(x.v - 157))

\* Quat * Vec3 for the rotation by angle rot about X.
Rotate(rot, v) ==
    <<v[1],
      FSub(FMul(v[2], FCos(rot)), FMul(v[3], FSin(rot))),
      FAdd(FMul(v[2], FSin(rot)), FMul(v[3], FCos(rot)))>>

\* The square root of a natural number, rounded down.
RECURSIVE SqrtBetween(_, _, _)
SqrtBetween(n, lo, hi) ==
    IF lo >= hi THEN lo
    ELSE LET mid == (lo + hi + 1) \div 2
         IN  IF mid * mid <= n THEN SqrtBetween(n, mid, hi)
             ELSE SqrtBetween(n, lo, mid - 1)

\* Vec3::length, for components of magnitude up to 200 (20000 hundredths).
Length(v) ==
    IF IsNaN(v[1]) \/ IsNaN(v[2]) \/ IsNaN(v[3]) THEN NaN
    ELSE IF ~IsFinite(v[1]) \/ ~IsFinite(v[2]) \/ ~IsFinite(v[3]) THEN Inf(1)
    ELSE F(SqrtBetween(v[1].v * v[1].v + v[2].v * v[2].v + v[3].v * v[3].v, 0, 40000))

\* f32::abs
FAbs(x) == IF IsNaN(x) THEN NaN ELSE [x EXCEPT !.v = Abs(@)]

\* Lander::new
LanderNew(position, landing_zone_radius) ==
    [position |-> position,
     velocity |-> ZERO,
     rotation |-> F(0),
     angular_velocity |-> ZERO,
     dry_mass |-> F(APOLLO_LANDER_DRY_MASS_KG),
     payload_mass |-> F(APOLLO_LANDER_PAYLOAD_MASS_KG),
     fuel_mass |-> F(APOLLO_LANDER_INITIAL_FUEL_MASS_KG),
     dcs_thrust |-> F(APOLLO_LANDER_DCS_THRUST_N),
     rcs_thrust |-> F(APOLLO_LANDER_RCS_THRUST_N),
     rcs_torque |-> F(APOLLO_LANDER_RCS_TORQUE_NM),
     landing_zone_radius |-> landing_zone_radius,
     rod |-> RodNew(F(0), F(APOLLO_LANDER_DCS_THRUST_N))]

\* Lander::stop that also levels the vehicle.
LanderStopAndLevel(l) == [l EXCEPT !.velocity = ZERO, !.angular_velocity = ZERO, !.rotation = F(0)]

\* Lander::stop
LanderStop(l) == [l EXCEPT !.velocity = ZERO, !.angular_velocity = ZERO]

\* Lander::vertical_speed
VerticalSpeed(l) == FAbs(l.velocity[3])

\* Lander::horizontal_speed
HorizontalSpeed(l) == Length(<<l.velocity[1], l.velocity[2], F(0)>>)

\* Lander::tilt: the angle between rotation * Z and Z, in [0, pi].
Tilt(l) ==
    IF ~IsFinite(l.rotation) THEN NaN
    ELSE LET r == Abs(l.rotation.v) % 628
         IN  F(IF r > 314 THEN 628 - r ELSE r)

\* Lander::angular_speed
AngularSpeed(l) == Length(l.angular_velocity)

\* Lander::distance_from_landing_zone
DistanceFromLandingZone(l) == Length(l.position)

\* Lander::has_landed without the test of the altitude.
AlwaysLanded(l) == TRUE

\* Lander::has_landed
HasLanded(l) == FLe(l.position[3], F(0))

\* angular_velocity *= 0.999, one component.
Dampen(x) == IF IsFinite(x) THEN F(TruncDiv(x.v * 999, 1000)) ELSE x

(***************************************************************************)
(* Lander::step(dt, controls), one operator per stage, in the code's order: *)
(* the target of the rate controller takes the drained delta; with fuel    *)
(* left the engine fires and burns fuel; then strafe, gravity, torque with *)
(* angular damping, and integration.  total_mass is taken once, before the *)
(* burn, and used by every stage.                                          *)
(***************************************************************************)

\* The target of the rate controller takes the delta drained from the controls.
StepTarget(l, delta) == [l EXCEPT !.rod = RodAdjustTarget(@, delta)]

\* let total_mass = dry_mass + payload_mass + fuel_mass
TotalMass(l) == FAdd(FAdd(l.dry_mass, l.payload_mass), l.fuel_mass)

\* The call of compute_throttle: the throttle and the controller left behind.
StepThrottle(l, total_mass, dt) ==
    ComputeThrottle(l.rod, l.velocity[3], total_mass, Tilt(l), dt)

\* let fuel_consumed = throttle * APOLLO_LANDER_FUEL_BURN_RATE_KGPS * dt
FuelConsumed(throttle, dt) == FMul(FMul(throttle, F(APOLLO_LANDER_FUEL_BURN_RATE_KGPS)), dt)

\* The engine fires with throttle ct.value and the fuel is burned.
ApplyThrottle(l, total_mass, ct, dt) ==
    [l EXCEPT
       !.rod = ct.rod,
       !.velocity =
           VAdd(@, VScale(VDivS(VScale(VScale(Rotate(l.rotation, <<F(0), F(0), F(100)>>),
                                              ct.value),
                                       l.dcs_thrust),
                                total_mass),
                          dt)),
       !.fuel_mass = FMaxOf(FSub(@, FuelConsumed(ct.value, dt)), F(0))]

\* The engine stage without the test of the fuel: the controller is asked
\* and the engine fires whatever the tank holds.
StepThrustAlways(l, total_mass, dt) ==
    ApplyThrottle(l, total_mass, StepThrottle(l, total_mass, dt), dt)

\* if self.fuel_mass > 0.0 { ... }
StepThrust(l, total_mass, dt) ==
    IF FGt(l.fuel_mass, F(0))
    THEN ApplyThrottle(l, total_mass, StepThrottle(l, total_mass, dt), dt)
    ELSE l

\* Apply strafe.
StepStrafe(l, total_mass, strafe, dt) ==
    [l EXCEPT !.velocity =
        VAdd(@, VScale(VDivS(VScale(Rotate(l.rotation, <<F(strafe[1]), F(strafe[2]), F(0)>>),
                                    l.rcs_thrust),
                             total_mass),
                       dt))]

\* The step with its gravity term left out.
StepNoGravity(l, dt) == l

\* Apply gravity.
StepGravity(l, dt) ==
    [l EXCEPT !.velocity = VAdd(@, VScale(<<F(0), F(0), F(MOON_GRAVITY)>>, dt))]

\* One component of the angular velocity, damped.
Dampened(w) == <<Dampen(w[1]), Dampen(w[2]), Dampen(w[3])>>

\* Apply torque, then dampen the rotational velocity.
StepTorque(l, total_mass, rotate, dt) ==
    [l EXCEPT !.angular_velocity =
        Dampened(VAdd(@, VScale(VDiv(VScale(<<F(rotate[1]), F(rotate[2]), F(rotate[3])>>,
                                            l.rcs_torque),
                                     VScale(APOLLO_LANDER_INERTIA, total_mass)),
                                dt)))]

\* Update position and orientation.
StepIntegrate(l, dt) ==
    [l EXCEPT !.position = VAdd(@, VScale(l.velocity, dt)),
              !.rotation = FAdd(@, FMul(l.angular_velocity[1], dt))]

\* Lander::step with position and orientation updated before gravity and
\* torque are applied.
LanderStepIntegratingEarly(l, total_mass, strafe, rotate, dt) ==
    StepTorque(
        StepGravity(
            StepIntegrate(
                StepStrafe(StepThrust(l, total_mass, dt), total_mass, strafe, dt),
                dt),
            dt),
        total_mass, rotate, dt)

\* Lander::step, for a lander whose target has been adjusted.
LanderStep(l, total_mass, strafe, rotate, dt) ==
    StepIntegrate(
        StepTorque(
            StepGravity(
                StepStrafe(StepThrust(l, total_mass, dt), total_mass, strafe, dt),
                dt),
            total_mass, rotate, dt),
        dt)

-----------------------------------------------------------------------------
(* The landing evaluator: Lander::landing_report and LandingReport::new.   *)

\* LandingCriterion::ok with the comparison left out.
CriterionAlwaysOk(crit) == TRUE

\* LandingCriterion::ok
CriterionOk(crit) == FLe(crit.actual, crit.max)

\* LandingCriterion::score with no credit, and no penalty, for a failing criterion.
CriterionScoreIfOk(crit) ==
    IF CriterionOk(crit) THEN FDiv(FSub(crit.max, crit.actual), crit.max) ELSE F(0)

\* LandingCriterion::score
CriterionScore(crit) == FDiv(FSub(crit.max, crit.actual), crit.max)

\* Lander::landing_criteria
LandingCriteria(l) ==
    <<[type |-> "VerticalSpeed", max |-> F(300), actual |-> VerticalSpeed(l)],
      [type |-> "HorizontalSpeed", max |-> F(100), actual |-> HorizontalSpeed(l)],
      [type |-> "Tilt", max |-> F(25), actual |-> Tilt(l)],
      [type |-> "AngularSpeed", max |-> F(25), actual |-> AngularSpeed(l)],
      [type |-> "DistanceFromLandingZone",
       max |-> F(100 * l.landing_zone_radius),
       actual |-> DistanceFromLandingZone(l)]>>

\* One turn of the loop over the criteria, with the last failure kept.
NoteLastProblem(first_problem, crit) ==
    IF ~CriterionOk(crit) THEN Some(crit.type) ELSE first_problem

\* One turn of the loop over the criteria: the first failure is kept.
NoteProblem(first_problem, crit) ==
    IF ~CriterionOk(crit) /\ ~first_problem.some THEN Some(crit.type) ELSE first_problem

\* The loop over criteria[i..]: first_problem and score at its end.
RECURSIVE EvaluateFrom(_, _, _, _)
EvaluateFrom(criteria, i, score, first_problem) ==
    IF i > Len(criteria) THEN [score |-> score, first_problem |-> first_problem]
    ELSE EvaluateFrom(criteria, i + 1,
                      FAdd(score, FMul(CriterionScore(criteria[i]), F(200))),
                      NoteProblem(first_problem, criteria[i]))

\* match first_problem: the status, distance being the type of the distance criterion.
StatusOf(first_problem, distance) ==
    IF ~first_problem.some THEN "Landed"
    ELSE IF first_problem.val = distance THEN "Missed"
    ELSE "Crashed"

\* Lander::landing_report: None for a lander above the ground.  The summary
\* is named by the criterion whose text it is; with no failing criterion it
\* is "The eagle has landed.".
LandingReport(l) ==
    IF ~HasLanded(l) THEN None
    ELSE LET e == EvaluateFrom(LandingCriteria(l), 1, F(0), None)
         IN  Some([status |-> StatusOf(e.first_problem, "DistanceFromLandingZone"),
                   summary |-> IF e.first_problem.some THEN e.first_problem.val
                               ELSE "The eagle has landed.",
                   score |-> e.score,
                   criteria |-> LandingCriteria(l)])

\* landing.rs REMARKS: the remarks of each criterion type.
REMARKS ==
    [VerticalSpeed |->
         <<"You've redefined the term 'lunar impactor'.",
           "NASA's crater department thanks you for the new research subject.">>,
     HorizontalSpeed |->
         <<"You landed... sideways. The ground wasn't ready for that level of enthusiasm.">>,
     Tilt |-> <<"You came in like a majestic leaning tower of 'nope'.">>,
     AngularSpeed |->
         <<"You were still spinning on landing. Were you trying for a celebratory twirl?">>,
     DistanceFromTarget |-> <<"You stuck the landing - on the wrong part of the moon.">>]

\* LandingCriterionType::choose_remark: the remark the generator's draw rng picks.
ChooseRemark(type, rng) == REMARKS[type][((rng - 1) % Len(REMARKS[type])) + 1]

\* The criteria given to LandingReport::new for a lander: the constructors of
\* landing.rs applied to the limits and measurements of landing_criteria.
ReportCriteria(l) ==
    [i \in 1..5 |->
        [LandingCriteria(l)[i] EXCEPT
            !.type = IF @ = "DistanceFromLandingZone" THEN "DistanceFromTarget" ELSE @]]

\* LandingReport::new with a score that follows the generator's draw.
LandingReportNewByDraw(criteria, rng) ==
    [status |-> StatusOf(EvaluateFrom(criteria, 1, F(0), None).first_problem,
                         "DistanceFromTarget"),
     remark |-> "The eagle has landed.",
     score |-> F(rng),
     criteria |-> criteria]

\* LandingReport::new, rng being the draw of the random generator.
LandingReportNew(criteria, rng) ==
    LET e == EvaluateFrom(criteria, 1, F(0), None)
    IN  [status |-> StatusOf(e.first_problem, "DistanceFromTarget"),
         remark |-> IF e.first_problem.some THEN ChooseRemark(e.first_problem.val, rng)
                    ELSE "The eagle has landed.",
         score |-> e.score,
         criteria |-> criteria]

-----------------------------------------------------------------------------
(* The samples the model delivers.  A payload either fails to decode       *)
(* (serde_json::from_slice returns Err) or is a GamepadMsg whose vectors   *)
(* may be shorter than the configured indices.                             *)

Msg(ax, start, up, down) ==
    [decodes |-> TRUE, axes |-> <<ax, ax, ax, ax>>, buttons |-> <<0, 0, up, down, start>>]

\* A payload that is not a JSON GamepadMsg.
Garbage == [decodes |-> FALSE, axes |-> <<>>, buttons |-> <<>>]

\* A decodable sample with every button, start held, and no axes.
NoAxes == [decodes |-> TRUE, axes |-> <<>>, buttons |-> <<0, 0, 0, 0, 1>>]

\* A decodable sample whose buttons stop before the start button.
ShortButtons == [decodes |-> TRUE, axes |-> <<0, 0, 0, 0>>, buttons |-> <<0, 0>>]

\* Samples that exercise the start button and the up button.
ButtonMsgs == {Msg(0, s, u, 0) : s \in {0, 1}, u \in {0, 1}}

\* Samples given between resets: the start and up buttons, sticks at rest or pushed.
ResetMsgs == {Msg(0, 0, 0, 0), Msg(0, 1, 0, 0), Msg(50, 0, 1, 0), Msg(50, 1, 1, 0)}

\* Samples that exercise the up and down buttons.
DrainMsgs == {Msg(0, 0, u, d) : u \in {0, 1}, d \in {0, 1}}

\* Raw axis values: inside the dead zone, in range, beyond the clamp.
AxisSamples == {5, 50, -150}

\* Samples whose four axes carry the same raw value, and the malformed ones.
SnapshotMsgs == {Msg(a, 0, 0, 0) : a \in AxisSamples} \cup {Garbage, NoAxes, ShortButtons}

\* A sample is malformed when it does not decode or lacks a mapped index.
Malformed(msg) ==
    \/ ~msg.decodes
    \/ \E i \in {gamepad.map.axis_strafe_x, gamepad.map.axis_strafe_y,
                 gamepad.map.axis_roll, gamepad.map.axis_pitch} : ~InRange(msg.axes, i)
    \/ \E i \in {gamepad.map.button_yaw_left, gamepad.map.button_yaw_right,
                 gamepad.map.button_vertical_velocity_up,
                 gamepad.map.button_vertical_velocity_down,
                 gamepad.map.button_start} : ~InRange(msg.buttons, i)

-----------------------------------------------------------------------------
(* main.rs: the game loop with its own Lander, its SharedControls and its  *)
(* Listener.  The listener runs on the server's threads, the loop in a     *)
(* task: every SharedControls method is one step, taken under the lock.    *)

\* Indices of the Joy message, counted from 1: JOY_LY, JOY_RX, JOY_RY,
\* BUTTON_L2, BUTTON_R2, BUTTON_PS.
Joy == [LY |-> 2, RX |-> 3, RY |-> 4, L2 |-> 7, R2 |-> 8, PS |-> 17]

JOY_DEAD_ZONE_TOL == 10

\* A Joy message with the left stick at ly, the right stick at ry and the PS
\* button at ps.
JoyMsg(ly, ry, ps) ==
    [axes |-> <<0, ly, 0, ry>>,
     buttons |-> [i \in 1..17 |-> IF i = 17 THEN ps ELSE 0]]

\* GamepadMsg::reset
JoyReset(msg) == msg.buttons[Joy.PS] > 0

\* GamepadMsg::read_axes
JoyReadAxes(msg, idx) ==
    IF Abs(msg.axes[idx]) < JOY_DEAD_ZONE_TOL THEN 0 ELSE Clamp(msg.axes[idx], -100, 100)

\* GamepadMsg::thrust
JoyThrust(msg) == IF JoyReadAxes(msg, Joy.LY) > 0 THEN JoyReadAxes(msg, Joy.LY) ELSE 0

\* GamepadMsg::rotation: pitch, yaw, roll.
JoyRotation(msg) ==
    <<JoyReadAxes(msg, Joy.RY),
      JoyReadAxes(msg, Joy.RX),
      msg.buttons[Joy.R2] - msg.buttons[Joy.L2]>>

\* Controls::default
SharedControlsDefault == [reset |-> FALSE, thrust |-> 0, rotation |-> <<0, 0, 0>>]

\* SharedControls::is_reset_pending
IsResetPending(c) == c.reset

\* SharedControls::request_reset
RequestReset(c) == [c EXCEPT !.reset = TRUE]

\* SharedControls::do_reset
DoReset(c) == [c EXCEPT !.reset = FALSE, !.thrust = 0, !.rotation = <<0, 0, 0>>]

\* SharedControls::update that also clears the reset flag.
SharedUpdateAndClear(c, thrust, rotation) ==
    [c EXCEPT !.thrust = thrust, !.rotation = rotation, !.reset = FALSE]

\* SharedControls::update
SharedUpdate(c, thrust, rotation) == [c EXCEPT !.thrust = thrust, !.rotation = rotation]

\* Mass in kg, thrust power in newtons and torque power, in hundredths.
APOLLO_LANDER_INITIAL_MASS_KG == 1520000

APOLLO_LANDER_THRUST_POWER_N == 4450000

APOLLO_LANDER_TORQUE_POWER_N == 300

\* Lander::apollo
Apollo(position) ==
    [position |-> position,
     velocity |-> ZERO,
     rotation |-> F(0),
     angular_velocity |-> ZERO,
     mass |-> F(APOLLO_LANDER_INITIAL_MASS_KG),
     thrust_power |-> F(APOLLO_LANDER_THRUST_POWER_N),
     torque_power |-> F(APOLLO_LANDER_TORQUE_POWER_N)]

\* Lander::step up to its read of controls.rotation(): gravity, then thrust.
ApolloThrust(l, thrust, dt) ==
    [l EXCEPT !.velocity =
        VAdd(VAdd(@, VScale(<<F(0), F(0), F(MOON_GRAVITY)>>, dt)),
             VScale(VDivS(VScale(VScale(Rotate(l.rotation, <<F(0), F(0), F(100)>>),
                                        F(thrust)),
                                 l.thrust_power),
                          l.mass),
                    dt))]

\* angular_velocity *= 0.98
Dampened98(w) == VScale(w, F(98))

\* Lander::step from its read of controls.rotation(): torque, damping,
\* position and orientation.
ApolloTorque(l, rotation, dt) ==
    [l EXCEPT
       !.angular_velocity =
           Dampened98(VAdd(@, VScale(VScale(<<F(rotation[1]), F(rotation[2]),
                                               F(rotation[3])>>,
                                            l.torque_power),
                                     dt))),
       !.position = VAdd(@, VScale(l.velocity, dt)),
       !.rotation =
           FAdd(@, FMul(Dampened98(VAdd(l.angular_velocity,
                                        VScale(VScale(<<F(rotation[1]), F(rotation[2]),
                                                        F(rotation[3])>>,
                                                      l.torque_power),
                                               dt)))[1],
                        dt))]

\* Landscape::lander_start_position: 100 m above the landing zone.
StartPosition == <<F(0), F(0), F(10000)>>

\* let dt = 1.0 / 30.0, in hundredths of a second.
LoopDt == F(3)

\* The payloads the server hands to Listener::on_message_data: one that does
\* not decode, sticks at rest, thrust with pitch, and the PS button.
JoyPayloads ==
    {[decodes |-> FALSE, msg |-> JoyMsg(0, 0, 0)],
     [decodes |-> TRUE, msg |-> JoyMsg(0, 0, 0)],
     [decodes |-> TRUE, msg |-> JoyMsg(100, 50, 0)],
     [decodes |-> TRUE, msg |-> JoyMsg(0, 0, 1)],
     [decodes |-> TRUE, msg |-> JoyMsg(100, 50, 1)]}

\* The landers the loop is followed from: the one game_loop makes, and two
\* in free fall a moment before touchdown.
LoopLanders ==
    {Apollo(StartPosition)} \cup
    {[Apollo(<<F(0), F(0), F(z)>>) EXCEPT !.velocity = <<F(0), F(0), F(-296)>>] :
        z \in {9, 50}}

GameInit(l) ==
    [lander |-> l,
     controls |-> SharedControlsDefault,
     pc |-> "check",
     heard |-> "idle",
     pending |-> None,
     ticks |-> 0,
     msgs |-> 0,
     cleared |-> FALSE]

\* Every other specification leaves the game loop where it starts.
InitGame == game = GameInit(Apollo(StartPosition))

-----------------------------------------------------------------------------
(* landscape/height_map.rs: HeightMap.  Heights are in hundredths; z is the *)
(* flat vector, indexed from 0 by ix * depth + iy.                         *)

LANDING_ZONE_RADIUS == 5

LANDING_ZONE_BLEND_RADIUS == 7

\* z_scale * perlin.get([x * noise_scale, y * noise_scale]): a value in
\* [-2, 2] that the seed and the cell determine.
Noise(seed, x, y) == ((seed * x * x + 7 * x * y + 13 * y + 31 * seed) % 401) - 200

\* HeightMap::new
HeightMapNew(seed, width) ==
    [width |-> width,
     depth |-> width,
     landing_zone |-> <<0, 0, 0>>,
     z |-> [idx \in 0..(width * width - 1) |-> Noise(seed, idx \div width, idx % width)]]

\* HeightMap::get
HeightMapGet(hm, ix, iy) == hm.z[ix * hm.depth + iy]

\* dist = (dx * dx + dy * dy).sqrt(), in hundredths, for the squared distance d2.
Dist(d2) == SqrtBetween(10000 * d2, 0, 100 * (d2 + 1))

\* The blend factor without its clamp.
BlendFactorUnclamped(d2) == TruncDiv(Dist(d2) - 100 * LANDING_ZONE_RADIUS, 2)

\* let t = ((dist - radius) / 2.0).clamp(0.0, 1.0), in hundredths.
BlendFactor(d2) == Clamp(TruncDiv(Dist(d2) - 100 * LANDING_ZONE_RADIUS, 2), 0, 100)

\* let z = (1.0 - t) * center_z + t * self.get(ix, iy)
Blend(t, center_z, z) == TruncDiv((100 - t) * center_z + t * z, 100)

\* The body of the two loops for the cell (ix, iy): the height it is given.
CarveCell(hm, center_x, center_y, center_z, ix, iy) ==
    IF ix < hm.width /\ iy < hm.depth
    THEN LET d2 == (ix - center_x) * (ix - center_x) + (iy - center_y) * (iy - center_y)
         IN  IF d2 <= LANDING_ZONE_BLEND_RADIUS * LANDING_ZONE_BLEND_RADIUS
             THEN Blend(BlendFactor(d2), center_z, HeightMapGet(hm, ix, iy))
             ELSE HeightMapGet(hm, ix, iy)
    ELSE HeightMapGet(hm, ix, iy)

\* The two loops: ix from center_x - blend_radius to center_x + blend_radius,
\* iy from center_y - blend_radius to center_y + blend_radius.  Each cell is
\* visited once and its turn reads its own height and center_z only, so the
\* map the loops leave is the map of the heights the turns give.
Carve(hm, center_x, center_y, center_z) ==
    [hm EXCEPT !.z =
        [idx \in DOMAIN hm.z |->
            IF /\ idx \div hm.depth \in (center_x - LANDING_ZONE_BLEND_RADIUS)
                                           ..(center_x + LANDING_ZONE_BLEND_RADIUS)
               /\ idx % hm.depth \in (center_y - LANDING_ZONE_BLEND_RADIUS)
                                         ..(center_y + LANDING_ZONE_BLEND_RADIUS)
            THEN CarveCell(hm, center_x, center_y, center_z,
                           idx \div hm.depth, idx % hm.depth)
            ELSE hm.z[idx]]]

(***************************************************************************)
(* HeightMap::set_landing_zone.  center - blend_radius is a u32            *)
(* subtraction: below zero it panics in a build with overflow checks, and  *)
(* wraps in a build without, where the range that starts at the wrapped    *)
(* value is empty and no cell is visited.                                  *)
(***************************************************************************)
SetLandingZone(hm, center_x, center_y, overflow_checks) ==
    LET center_z == HeightMapGet(hm, center_x, center_y)
        underflow == \/ center_x < LANDING_ZONE_BLEND_RADIUS
                     \/ center_y < LANDING_ZONE_BLEND_RADIUS
        zone == <<center_x, center_y, center_z>>
    IN  IF underflow /\ overflow_checks THEN [panicked |-> TRUE, hm |-> hm]
        ELSE IF underflow THEN [panicked |-> FALSE, hm |-> [hm EXCEPT !.landing_zone = zone]]
        ELSE [panicked |-> FALSE,
              hm |-> [Carve(hm, center_x, center_y, center_z)
                          EXCEPT !.landing_zone = zone]]

-----------------------------------------------------------------------------
(* parameters.rs: Data, Clamp, Value and Registry.  An f32 is in hundredths. *)

\* Data: the variant and its payload; the fields of the other variants rest.
DataSeed(v) == [t |-> "seed", s |-> v, b |-> FALSE, f |-> F(0)]

DataBool(v) == [t |-> "bool", s |-> 0, b |-> v, f |-> F(0)]

DataF32(v) == [t |-> "f32", s |-> 0, b |-> FALSE, f |-> v]

\* foxglove::websocket::ParameterValue, as far as the registry reads it: a
\* byte string (its length and, read little-endian, its value), a bool, or a
\* number already cast to f32.
ValueString(len, v) == [t |-> "string", len |-> len, s |-> v, b |-> FALSE, f |-> F(0)]

ValueBool(v) == [t |-> "bool", len |-> 0, s |-> 0, b |-> v, f |-> F(0)]

ValueNumber(v) == [t |-> "number", len |-> 0, s |-> 0, b |-> FALSE, f |-> v]

\* foxglove::websocket::Parameter; the type is always None.
Parameter(name, value) == [name |-> name, value |-> value]

\* Data::as_parameter_value
AsParameterValue(data) ==
    IF data.t = "seed" THEN Some(ValueString(8, data.s))
    ELSE IF data.t = "bool" THEN Some(ValueBool(data.b))
    ELSE Some(ValueNumber(data.f))

NoClamp == [kind |-> "none", lo |-> F(0), hi |-> F(0)]

ClampRange(lo, hi) == [kind |-> "range", lo |-> lo, hi |-> hi]

\* The ClampFn of the two landing zone distances.
ClampHalfWidth == [kind |-> "half_width", lo |-> F(0), hi |-> F(0)]

\* ClampRange<f32>::clamp that lets every number through as it is.
ClampRangePass(lo, hi, data) ==
    IF data.t = "f32" THEN Some(data) ELSE None

\* Clamp for ClampRange<f32>::clamp: f32::clamp lets a NaN through.
ClampRangeClamp(lo, hi, data) ==
    IF data.t = "f32" THEN Some(DataF32(FClamp(data.f, lo, hi))) ELSE None

\* Value::new
ValueNew(default, clamp) == [current |-> default, default |-> default, clamp |-> clamp]

\* default_values
DefaultValues ==
    [seed |-> ValueNew(DataSeed(0), NoClamp),
     regenerate_seed |-> ValueNew(DataBool(TRUE), NoClamp),
     landscape_width |-> ValueNew(DataF32(F(20000)), ClampRange(F(10000), F(100000))),
     landing_zone_min_distance |-> ValueNew(DataF32(F(3000)), ClampHalfWidth),
     landing_zone_max_distance |-> ValueNew(DataF32(F(7000)), ClampHalfWidth),
     landing_zone_radius |-> ValueNew(DataF32(F(2000)), ClampRange(F(500), F(5000))),
     init_altitude |-> ValueNew(DataF32(F(20000)), ClampRange(F(10000), F(100000))),
     init_vertical_velocity |-> ValueNew(DataF32(F(0)), ClampRange(F(-2000), F(0))),
     init_vertical_velocity_target |->
         ValueNew(DataF32(F(-600)), ClampRange(F(-2000), F(0)))]

\* Registry::get_f32 of a key that holds an f32.
GetF32(values, key) == values[key].current.f

\* Clamp::clamp of a value's clamp, against the registry as it is.
ClampClamp(clamp, values, data) ==
    IF clamp.kind = "range" THEN ClampRangeClamp(clamp.lo, clamp.hi, data)
    ELSE ClampRangeClamp(F(0), FDiv(GetF32(values, "landscape_width"), F(200)), data)

\* Value::get_update_from_parameter with the default stored as it is, never
\* passed through the clamp.
GetUpdateFromParameterRawDefault(value, values, parameter) ==
    LET pv == parameter.value
        current == value.current
        matched == \/ ~pv.some
                   \/ current.t = "seed" /\ pv.val.t = "string" /\ pv.val.len = 8
                   \/ current.t = "bool" /\ pv.val.t = "bool"
                   \/ current.t = "f32" /\ pv.val.t = "number"
        updated == IF ~pv.some THEN value.default
                   ELSE IF current.t = "seed" THEN DataSeed(pv.val.s)
                   ELSE IF current.t = "bool" THEN DataBool(pv.val.b)
                   ELSE DataF32(pv.val.f)
        clamped == IF value.clamp.kind = "none" \/ ~pv.some THEN None
                   ELSE ClampClamp(value.clamp, values, updated)
    IN  IF ~matched THEN None
        ELSE Some(IF clamped.some THEN clamped.val ELSE updated)

\* Value::get_update_from_parameter
GetUpdateFromParameter(value, values, parameter) ==
    LET pv == parameter.value
        current == value.current
        matched == \/ ~pv.some
                   \/ current.t = "seed" /\ pv.val.t = "string" /\ pv.val.len = 8
                   \/ current.t = "bool" /\ pv.val.t = "bool"
                   \/ current.t = "f32" /\ pv.val.t = "number"
        updated == IF ~pv.some THEN value.default
                   ELSE IF current.t = "seed" THEN DataSeed(pv.val.s)
                   ELSE IF current.t = "bool" THEN DataBool(pv.val.b)
                   ELSE DataF32(pv.val.f)
        clamped == IF value.clamp.kind = "none" THEN None
                   ELSE ClampClamp(value.clamp, values, updated)
    IN  IF ~matched THEN None
        ELSE Some(IF clamped.some THEN clamped.val ELSE updated)

\* Value::update: the data is stored when its type is the current one's,
\* else the call panics.
ValueUpdate(value, data) ==
    IF value.current.t = data.t
    THEN [panicked |-> FALSE, value |-> [value EXCEPT !.current = data]]
    ELSE [panicked |-> TRUE, value |-> value]

\* Registry::set_parameters, first loop: the updates of the entries whose
\* name is known and whose value is accepted, all of them computed against
\* the registry as it is before any is applied.
RECURSIVE Updates(_, _)
Updates(values, params) ==
    IF params = <<>> THEN <<>>
    ELSE LET param == Head(params)
             rest == Updates(values, Tail(params))
         IN  IF param.name \notin DOMAIN values THEN rest
             ELSE LET data == GetUpdateFromParameter(values[param.name], values, param)
                  IN  IF data.some THEN <<[name |-> param.name, data |-> data.val]>> \o rest
                      ELSE rest

\* Registry::set_parameters, second loop: each update is stored and the
\* parameter is read back from the value.
RECURSIVE ApplyUpdates(_, _)
ApplyUpdates(acc, updates) ==
    IF updates = <<>> \/ acc.panicked THEN acc
    ELSE LET u == Head(updates)
             r == ValueUpdate(acc.values[u.name], u.data)
         IN  ApplyUpdates(
                 [panicked |-> r.panicked,
                  values |-> [acc.values EXCEPT ![u.name] = r.value],
                  returned |-> IF r.panicked THEN acc.returned
                               ELSE Append(acc.returned,
                                           Parameter(u.name, AsParameterValue(r.value.current)))],
                 Tail(updates))

\* Registry::set_parameters
SetParameters(values, params) ==
    ApplyUpdates([panicked |-> FALSE, values |-> values, returned |-> <<>>],
                 Updates(values, params))

-----------------------------------------------------------------------------
(* The parts that stand alone, before anything is asked of them. *)

\* No axis has been read.
AxisIdle == [reader |-> "none", raw |-> 0, dead_zone |-> None, reading |-> None]

InitAxis == axis = AxisIdle

\* No height map has been made.
TerrainIdle == [status |-> "idle"]

InitTerrain == terrain = TerrainIdle

\* Registry::default, before any set_parameters call.
RegistryDefault ==
    [values |-> DefaultValues, before |-> DefaultValues, params |-> <<>>,
     returned |-> <<>>, panicked |-> FALSE, calls |-> 0]

InitRegistry == registry = RegistryDefault

InitAux ==
    /\ InitAxis
    /\ InitTerrain
    /\ InitRegistry

-----------------------------------------------------------------------------
(* The input conditioner as a state machine: the listener context writes,  *)
(* the tick loop reads; every Controls method holds the lock for its whole *)
(* body, so each is one step.                                              *)

HistInit ==
    [prevStart |-> FALSE, edges |-> 0, prevUp |-> FALSE,
     incUp |-> 0, incDown |-> 0, drainedUp |-> 0, drainedDown |-> 0,
     resets |-> 0, sampledSince |-> TRUE, heldAcross |-> FALSE,
     firstAfterHard |-> FALSE, hardThenTrue |-> FALSE]

TickInit == [pc |-> "target", delta |-> 0, strafe |-> <<0, 0>>, rotate |-> <<0, 0, 0>>]

InitControls ==
    /\ state = StateDefault
    /\ now = 0
    /\ hist = HistInit
    /\ listener = "idle"
    /\ tick = TickInit

\* The controller Lander::new makes, before any call.
InitController ==
    ctl = [rod |-> RodNew(F(0), F(APOLLO_LANDER_DCS_THRUST_N)),
           throttle |-> F(0), pre |-> FALSE, tilt |-> F(0), calls |-> 0,
           small |-> 0, big |-> 0]

\* No report made yet.
TrailInit == [logged |-> <<>>, evaluated |-> <<>>]

\* Before the first step() call.
LastInit ==
    [steps |-> 0, dt |-> F(0), burning |-> FALSE, throttle |-> F(0),
     fuel_consumed |-> F(0), fuel_before |-> F(APOLLO_LANDER_INITIAL_FUEL_MASS_KG),
     denominator |-> F(APOLLO_LANDER_DCS_THRUST_N),
     zero_input |-> FALSE, velocity_before |-> ZERO,
     before |-> LanderNew(<<F(0), F(0), F(20000)>>, 10),
     strafe |-> <<0, 0>>, rotate |-> <<0, 0, 0>>]

\* The lander Lander::new makes, 200 m above the center of a zone of radius 10.
InitLander ==
    /\ lander = LanderNew(<<F(0), F(0), F(20000)>>, 10)
    /\ last = LastInit
    /\ report = None
    /\ trail = TrailInit

Init ==
    /\ InitControls
    /\ InitController
    /\ InitAux
    /\ InitGame
    /\ InitLander

\* Time passes.
Advance ==
    /\ now + StepMs <= MaxTime
    /\ now' = now + StepMs
    /\ UNCHANGED <<state, hist, listener, tick, ctl, flightVars>>

\* The history after a call of update_from_msg with result r: the samples the
\* start and up buttons were given, and the increments of the up/down counters.
HistAfter(h, st, r, msg) ==
    [h EXCEPT
       !.prevStart = IF r.stage >= 1 THEN read_start(msg) ELSE @,
       !.edges = IF r.stage >= 1 /\ read_start(msg) /\ ~h.prevStart THEN @ + 1 ELSE @,
       !.prevUp = IF r.stage >= 4 THEN read_vertical_velocity_up(msg) ELSE @,
       !.sampledSince = @ \/ r.stage >= 1,
       !.heldAcross = @ /\ (r.stage >= 1 => read_start(msg)),
       !.firstAfterHard = @ /\ r.stage < 1,
       !.hardThenTrue = @ \/ (h.firstAfterHard /\ r.stage >= 1 /\ read_start(msg)),
       !.incUp = @ + (r.st.vertical_velocity_up.count - st.vertical_velocity_up.count),
       !.incDown = @ + (r.st.vertical_velocity_down.count
                        - st.vertical_velocity_down.count)]

(***************************************************************************)
(* A sample arrives (ServerListener::on_message_data): a payload that does *)
(* not decode is reported and dropped, any other goes to update_from_msg.  *)
(***************************************************************************)
OnMessageData(payload) ==
    /\ state.reset.count < MaxCount
    /\ hist.edges < MaxCount
    /\ hist.incUp < MaxCount
    /\ hist.incDown < MaxCount
    /\ IF ~payload.decodes
       THEN /\ listener' = "dropped"
            /\ UNCHANGED <<state, hist>>
       ELSE LET r == UpdateFromMsgResult(state, payload, now)
            IN  /\ state' = r.st
                /\ listener' = IF r.ok THEN "returned" ELSE "panicked"
                /\ hist' = HistAfter(hist, state, r, payload)
    /\ UNCHANGED <<now, tick, ctl, flightVars>>

\* step() adjusts the controller's target by the drained delta.
TickTarget ==
    /\ tick.pc = "target"
    /\ LET r == GetAndResetVerticalVelocityDelta(state)
       IN  /\ state' = r.st
           /\ tick' = [tick EXCEPT !.pc = "strafe", !.delta = r.value]
           /\ hist' = [hist EXCEPT !.drainedUp = @ + r.up, !.drainedDown = @ + r.down]
    /\ UNCHANGED <<now, listener, ctl, flightVars>>

\* step() reads the strafe input.
TickStrafe ==
    /\ tick.pc = "strafe"
    /\ tick' = [tick EXCEPT !.pc = "rotate", !.strafe = ControlsStrafe(state)]
    /\ UNCHANGED <<state, now, hist, listener, ctl, flightVars>>

\* step() reads the rotate input.
TickRotate ==
    /\ tick.pc = "rotate"
    /\ tick' = [tick EXCEPT !.pc = "sleep", !.rotate = ControlsRotate(state)]
    /\ UNCHANGED <<state, now, hist, listener, ctl, flightVars>>

\* The tick loop sleeps until the next tick.
TickSleep ==
    /\ tick.pc = "sleep"
    /\ tick' = [tick EXCEPT !.pc = "target"]
    /\ UNCHANGED <<state, now, hist, listener, ctl, flightVars>>

NextButton ==
    \/ Advance
    \/ \E m \in ButtonMsgs : OnMessageData(m)

SpecButton == Init /\ [][NextButton]_vars

(***************************************************************************)
(* The history after Controls::reset(hard).  It starts anew: no edge is    *)
(* counted and no start sample has been given since; a soft reset made     *)
(* while the last start sample was true is one the button is held across,  *)
(* and a hard reset forgets the samples before it.                         *)
(***************************************************************************)
HistAfterReset(h, hard) ==
    [h EXCEPT !.resets = @ + 1,
              !.edges = 0,
              !.prevStart = IF hard THEN FALSE ELSE @,
              !.prevUp = IF hard THEN FALSE ELSE @,
              !.sampledSince = FALSE,
              !.heldAcross = ~hard /\ h.prevStart,
              !.firstAfterHard = hard,
              !.hardThenTrue = FALSE]

\* Controls::soft_reset
SoftReset ==
    /\ hist.resets < MaxResets
    /\ state' = ControlsReset(state, FALSE)
    /\ hist' = HistAfterReset(hist, FALSE)
    /\ UNCHANGED <<now, listener, tick, ctl, flightVars>>

\* Controls::hard_reset
HardReset ==
    /\ hist.resets < MaxResets
    /\ state' = ControlsReset(state, TRUE)
    /\ hist' = HistAfterReset(hist, TRUE)
    /\ UNCHANGED <<now, listener, tick, ctl, flightVars>>

NextReset ==
    \/ Advance
    \/ \E m \in ResetMsgs : OnMessageData(m)
    \/ SoftReset
    \/ HardReset

SpecReset == Init /\ [][NextReset]_vars

NextDrain ==
    \/ Advance
    \/ \E m \in DrainMsgs : OnMessageData(m)
    \/ TickTarget
    \/ TickStrafe
    \/ TickRotate
    \/ TickSleep

SpecDrain == Init /\ [][NextDrain]_vars

NextSnapshot ==
    \/ \E m \in SnapshotMsgs : OnMessageData(m)
    \/ TickTarget
    \/ TickStrafe
    \/ TickRotate
    \/ TickSleep

SpecSnapshot == Init /\ [][NextSnapshot]_vars

-----------------------------------------------------------------------------
(* The rate controller on its own: any sequence of adjust_target and       *)
(* compute_throttle calls, with arguments drawn from small sets that hold  *)
(* ordinary values and values at the end of the f32 range.                 *)

TargetDeltas == {F(-20), F(20), F(FMax)}

CurrentVelocities == {F(0), F(-300), F(-FMax)}

Masses == {F(730000)}

\* Tilts: upright, 60 degrees, just under 90 degrees, 90 degrees.
Tilts == {F(0), F(105), F(156), F(157)}

TimeSteps == {F(3), F(100)}

\* A call adjust_target(delta); small is the sum of the ordinary deltas given so
\* far and big the number of deltas at the end of the f32 range.
AdjustTarget(delta) ==
    /\ ctl.calls < MaxCalls
    /\ ctl' = [ctl EXCEPT !.rod = RodAdjustTarget(@, delta),
                           !.calls = @ + 1,
                           !.small = IF delta = F(FMax) THEN @ ELSE @ + delta.v,
                           !.big = IF delta = F(FMax) THEN @ + 1 ELSE @]
    /\ UNCHANGED <<controlVars, flightVars>>

\* A call compute_throttle(current, mass, tilt, dt); pre records whether the
\* target and current were finite, mass > 0 and dt > 0.
CallComputeThrottle(current, mass, tilt, dt) ==
    /\ ctl.calls < MaxCalls
    /\ LET r == ComputeThrottle(ctl.rod, current, mass, tilt, dt)
       IN  ctl' = [rod |-> r.rod,
                   throttle |-> r.value,
                   pre |-> /\ IsFinite(ctl.rod.target)
                           /\ IsFinite(current)
                           /\ FGt(mass, F(0))
                           /\ FGt(dt, F(0)),
                   tilt |-> tilt,
                   calls |-> ctl.calls + 1,
                   small |-> ctl.small,
                   big |-> ctl.big]
    /\ UNCHANGED <<controlVars, flightVars>>

NextThrottle ==
    \/ \E delta \in TargetDeltas : AdjustTarget(delta)
    \/ \E current \in CurrentVelocities, mass \in Masses,
          tilt \in Tilts, dt \in TimeSteps :
            CallComputeThrottle(current, mass, tilt, dt)

SpecThrottle == Init /\ [][NextThrottle]_vars

-----------------------------------------------------------------------------
(* The flight: samples arrive and the tick loop calls step(dt, controls).  *)
(* Samples pitch the vehicle and strafe it; they leave roll and yaw alone. *)

FlightMsg(strafe, pitch, up, down) ==
    [decodes |-> TRUE, axes |-> <<strafe, strafe, 0, pitch>>, buttons |-> <<0, 0, up, down, 0>>]

FlightMsgs == {FlightMsg(50, 50, 1, 0), FlightMsg(0, -50, 0, 1)}

\* The tick period the game loop runs with: 1 s or 15 s.
FlightSteps == {F(100), F(1500)}

\* The game loop starts: a new lander, and the period dt of every tick.
InitFlight ==
    /\ InitControls
    /\ InitController
    /\ InitAux
    /\ InitGame
    /\ lander = LanderNew(<<F(0), F(0), F(20000)>>, 10)
    /\ last \in {[LastInit EXCEPT !.dt = dt] : dt \in FlightSteps}
    /\ report = None
    /\ trail = TrailInit

\* One call of Lander::step(dt, controls).
Step ==
    /\ last.steps < MaxSteps
    /\ LET drained == GetAndResetVerticalVelocityDelta(state)
           l0 == StepTarget(lander, F(drained.value))
           total_mass == TotalMass(lander)
           burning == FGt(lander.fuel_mass, F(0))
           throttle == IF burning THEN StepThrottle(l0, total_mass, last.dt).value ELSE F(0)
       IN  /\ lander' = LanderStep(l0, total_mass, ControlsStrafe(drained.st),
                                   ControlsRotate(drained.st), last.dt)
           /\ state' = drained.st
           /\ hist' = [hist EXCEPT !.drainedUp = @ + drained.up,
                                   !.drainedDown = @ + drained.down]
           /\ last' = [steps |-> last.steps + 1,
                       dt |-> last.dt,
                       burning |-> burning,
                       throttle |-> throttle,
                       fuel_consumed |-> FuelConsumed(throttle, last.dt),
                       fuel_before |-> lander.fuel_mass,
                       denominator |-> FMul(lander.dcs_thrust, FCos(Tilt(lander))),
                       zero_input |-> /\ drained.value = 0
                                      /\ ControlsStrafe(drained.st) = <<0, 0>>
                                      /\ ControlsRotate(drained.st) = <<0, 0, 0>>,
                       velocity_before |-> lander.velocity,
                       before |-> lander,
                       strafe |-> ControlsStrafe(drained.st),
                       rotate |-> ControlsRotate(drained.st)]
    /\ UNCHANGED <<now, listener, tick, ctl, report, trail, game, auxVars>>

NextFlight ==
    \/ \E m \in FlightMsgs : OnMessageData(m)
    \/ Step

SpecFlight == InitFlight /\ [][NextFlight]_vars

-----------------------------------------------------------------------------
(* The end of the fuel: a flight that has been going on for a while.  The  *)
(* vehicle sinks at 0.5 m/s at 200 m, the controller's integral wound up   *)
(* or not, and the tank holds nothing, or 10 kg, less than one tick burns. *)

LowFuelLanders ==
    {[LanderNew(<<F(0), F(0), F(20000)>>, 10) EXCEPT
         !.fuel_mass = F(fuel),
         !.velocity = <<F(0), F(0), F(vz)>>,
         !.rod = [@ EXCEPT !.pid = [@ EXCEPT !.integral = F(integral),
                                             !.prev_error = F(-vz)]]] :
       fuel \in {0, 1000}, vz \in {-50}, integral \in {0, 120}}

InitDry ==
    /\ InitControls
    /\ InitController
    /\ InitAux
    /\ InitGame
    /\ lander \in LowFuelLanders
    /\ last = [LastInit EXCEPT !.dt = F(1500), !.before = lander,
                               !.fuel_before = lander.fuel_mass]
    /\ report = None
    /\ trail = TrailInit

SpecDry == InitDry /\ [][NextFlight]_vars

-----------------------------------------------------------------------------
(* The landing evaluator on its own: a vehicle in some final state, and    *)
(* the report made of it.  Each measured value is taken below its limit,   *)
(* at its limit and beyond it; the vehicle is on, below or above ground.   *)

FinalLanders ==
    {[LanderNew(<<F(x), F(0), F(z)>>, 10) EXCEPT
         !.velocity = <<F(vx), F(0), F(vz)>>,
         !.rotation = F(rot),
         !.angular_velocity = <<F(w), F(0), F(0)>>] :
       x \in {0, 1000, 1500}, z \in {0, -300, 500},
       vx \in {0, 100, 150}, vz \in {-290, -300, -500},
       rot \in {0, 25, -30}, w \in {0, 25, 40}}

InitLanding ==
    /\ InitControls
    /\ InitController
    /\ InitAux
    /\ InitGame
    /\ lander \in FinalLanders
    /\ last = LastInit
    /\ report = None
    /\ trail = TrailInit

\* Lander::log_landing_report: with no report it returns None and publishes
\* nothing; otherwise the report is published and its status returned.
LogLandingReport ==
    /\ Len(trail.logged) < MaxReports
    /\ report' = IF LandingReport(lander).some THEN LandingReport(lander) ELSE report
    /\ trail' = [trail EXCEPT !.logged =
                     Append(@, IF LandingReport(lander).some
                               THEN Some(LandingReport(lander).val.status)
                               ELSE None)]
    /\ UNCHANGED <<controlVars, ctl, lander, last, game, auxVars>>

NextLanding == LogLandingReport

SpecLanding == InitLanding /\ [][NextLanding]_vars

\* The draws of the random generator.
Draws == {1, 2}

\* LandingReport::new is given the criteria of the vehicle.
NewLandingReport(rng) ==
    /\ Len(trail.evaluated) < MaxReports
    /\ trail' = [trail EXCEPT !.evaluated =
                     Append(@, LandingReportNew(ReportCriteria(lander), rng))]
    /\ UNCHANGED <<controlVars, ctl, lander, last, report, game, auxVars>>

NextEvaluate == \E rng \in Draws : NewLandingReport(rng)

SpecEvaluate == InitLanding /\ [][NextEvaluate]_vars

\* Lander::stop, called on a vehicle in some final state.
Stop ==
    /\ lander' = LanderStop(lander)
    /\ UNCHANGED <<controlVars, ctl, last, report, trail, game, auxVars>>

NextStop == Stop

SpecStop == InitLanding /\ [][NextStop]_vars

-----------------------------------------------------------------------------
(* The game loop of main.rs and its listener, step by step.                *)

InitLoop ==
    /\ InitControls
    /\ InitController
    /\ InitAux
    /\ InitLander
    /\ game \in {GameInit(l) : l \in LoopLanders}

\* The head of the loop: a pending reset or a lander below the ground makes a
\* new lander; do_reset follows under its own lock.
LoopCheck ==
    /\ game.pc = "check"
    /\ game.ticks < MaxTicks
    /\ game' = IF IsResetPending(game.controls) \/ FLt(game.lander.position[3], F(0))
               THEN [game EXCEPT !.lander = Apollo(StartPosition), !.pc = "do_reset"]
               ELSE [game EXCEPT !.pc = "thrust"]
    /\ UNCHANGED <<controlVars, ctl, lander, last, report, trail, auxVars>>

LoopDoReset ==
    /\ game.pc = "do_reset"
    /\ game' = [game EXCEPT !.controls = DoReset(@), !.pc = "thrust", !.cleared = TRUE]
    /\ UNCHANGED <<controlVars, ctl, lander, last, report, trail, auxVars>>

\* lander.step(dt, &controls), to its read of controls.thrust().
LoopStepThrust ==
    /\ game.pc = "thrust"
    /\ game' = [game EXCEPT !.lander = ApolloThrust(@, game.controls.thrust, LoopDt),
                            !.pc = "rotation"]
    /\ UNCHANGED <<controlVars, ctl, lander, last, report, trail, auxVars>>

\* The rest of lander.step, from its read of controls.rotation(), and the sleep.
LoopStepRotation ==
    /\ game.pc = "rotation"
    /\ game' = [game EXCEPT !.lander = ApolloTorque(@, game.controls.rotation, LoopDt),
                            !.pc = "check",
                            !.ticks = @ + 1]
    /\ UNCHANGED <<controlVars, ctl, lander, last, report, trail, auxVars>>

\* Listener::on_message_data (main.rs): a payload that does not decode is
\* dropped; otherwise request_reset, if the PS button is down, and then update.
\* cleared holds from do_reset until the next payload that decodes arrives.
OnJoyMessage(payload) ==
    /\ game.msgs < MaxMsgs
    /\ ~game.pending.some
    /\ game' =
         IF ~payload.decodes THEN [game EXCEPT !.heard = "dropped", !.msgs = @ + 1]
         ELSE IF JoyReset(payload.msg)
              THEN [game EXCEPT !.controls = RequestReset(@),
                                !.pending = Some(payload.msg),
                                !.heard = "reset",
                                !.msgs = @ + 1,
                                !.cleared = FALSE]
              ELSE [game EXCEPT !.controls = SharedUpdate(@, JoyThrust(payload.msg),
                                                          JoyRotation(payload.msg)),
                                !.heard = "updated",
                                !.msgs = @ + 1,
                                !.cleared = FALSE]
    /\ UNCHANGED <<controlVars, ctl, lander, last, report, trail, auxVars>>

\* The update that follows request_reset in on_message_data.
OnJoyMessageUpdate ==
    /\ game.pending.some
    /\ game' = [game EXCEPT !.controls = SharedUpdate(@, JoyThrust(game.pending.val),
                                                      JoyRotation(game.pending.val)),
                            !.pending = None,
                            !.heard = "updated"]
    /\ UNCHANGED <<controlVars, ctl, lander, last, report, trail, auxVars>>

NextLoop ==
    \/ LoopCheck
    \/ LoopDoReset
    \/ LoopStepThrust
    \/ LoopStepRotation
    \/ \E payload \in JoyPayloads : OnJoyMessage(payload)
    \/ OnJoyMessageUpdate

SpecLoop == InitLoop /\ [][NextLoop]_vars

(***************************************************************************)
(* The repository holds two input paths, and a run follows one of them:    *)
(* the game loop of main.rs with its SharedControls, or controls.rs with   *)
(* its resets while that loop is off.                                      *)
(***************************************************************************)
InitLatch ==
    /\ InitControls
    /\ InitController
    /\ InitAux
    /\ InitLander
    /\ game \in {GameInit(Apollo(StartPosition)),
                 [GameInit(Apollo(StartPosition)) EXCEPT !.pc = "off"]}

NextLatch ==
    \/ game.pc # "off" /\ NextLoop
    \/ game.pc = "off" /\ NextReset

SpecLatch == InitLatch /\ [][NextLatch]_vars

-----------------------------------------------------------------------------
(* One conditioned axis reading: a raw value, a gamepad configuration and   *)
(* the reader asked.  The readers of gamepad.rs take the configured dead   *)
(* zone; read_axes of main.rs has its own.                                 *)

\* Everything but the parts that stand alone, before anything has run.
InitRest ==
    /\ InitControls
    /\ InitController
    /\ InitGame
    /\ InitLander

\* Raw axis values, in hundredths: around the default dead zone, around the
\* clamp and far beyond it.
RawAxisValues == {-500, -150, -100, -50, -10, -9, 0, 5, 9, 10, 25, 99, 100, 101, 150, 500}

\* joystick_dead_zone of the configuration file: absent, or any number.
DeadZones == {None, Some(0), Some(10), Some(25), Some(100), Some(150), Some(-5)}

GamepadReaders == {"read_strafe_x", "read_strafe_y", "read_pitch", "read_roll"}

\* The reading the reader returns for a sample whose sticks are all at raw.
ConditionedReading(reader, dead_zone, raw) ==
    CASE reader = "read_strafe_x" ->
             ReadAxis(dead_zone, Msg(raw, 0, 0, 0), gamepad.map.axis_strafe_x)
      [] reader = "read_strafe_y" ->
             ReadAxis(dead_zone, Msg(raw, 0, 0, 0), gamepad.map.axis_strafe_y)
      [] reader = "read_pitch" ->
             -ReadAxis(dead_zone, Msg(raw, 0, 0, 0), gamepad.map.axis_pitch)
      [] reader = "read_roll" ->
             -ReadAxis(dead_zone, Msg(raw, 0, 0, 0), gamepad.map.axis_roll)
      [] reader = "read_axes" -> JoyReadAxes(JoyMsg(raw, raw, 0), Joy.LY)

InitReading ==
    /\ InitRest
    /\ InitTerrain
    /\ InitRegistry
    /\ axis \in {[reader |-> r, raw |-> raw, dead_zone |-> dz, reading |-> None] :
                    r \in GamepadReaders, raw \in RawAxisValues, dz \in DeadZones}
               \cup {[reader |-> "read_axes", raw |-> raw, dead_zone |-> None,
                      reading |-> None] : raw \in RawAxisValues}

\* The reader is called.
ReadConditionedAxis ==
    /\ ~axis.reading.some
    /\ axis' = [axis EXCEPT !.reading =
                    Some(ConditionedReading(axis.reader, axis.dead_zone, axis.raw))]
    /\ UNCHANGED <<controlVars, ctl, lander, last, report, trail, game, terrain, registry>>

NextReading == ReadConditionedAxis

SpecReading == InitReading /\ [][NextReading]_vars

-----------------------------------------------------------------------------
(* Carving the landing zone: a height map made from a seed, a center, and  *)
(* one call of set_landing_zone in a build with or without overflow checks. *)

\* The centers set_random_landing_zone draws, from twice the blend radius in
\* from every edge.
RandomCenters ==
    LET range == (2 * LANDING_ZONE_BLEND_RADIUS)..(TerrainWidth - 2 * LANDING_ZONE_BLEND_RADIUS - 1)
    IN  range \X range

\* Centers closer than the blend radius to an edge: low in x, low in y, high
\* in x, high in both.
EdgeCenters ==
    {<<3, 15>>, <<15, 2>>, <<TerrainWidth - 3, 15>>, <<TerrainWidth - 1, TerrainWidth - 4>>}

InitCarve ==
    /\ InitRest
    /\ InitAxis
    /\ InitRegistry
    /\ terrain \in {[status |-> "new",
                     overflow_checks |-> checks,
                     center |-> center,
                     hm |-> HeightMapNew(seed, TerrainWidth),
                     before |-> HeightMapNew(seed, TerrainWidth)] :
                       seed \in 1..MaxSeed, center \in RandomCenters \cup EdgeCenters,
                       checks \in BOOLEAN}

\* One call of set_landing_zone.
CallSetLandingZone ==
    /\ terrain.status = "new"
    /\ LET r == SetLandingZone(terrain.hm, terrain.center[1], terrain.center[2],
                               terrain.overflow_checks)
       IN  terrain' = [terrain EXCEPT !.status = IF r.panicked THEN "panicked" ELSE "done",
                                      !.hm = r.hm]
    /\ UNCHANGED <<controlVars, ctl, lander, last, report, trail, game, axis, registry>>

NextCarve == CallSetLandingZone

SpecCarve == InitCarve /\ [][NextCarve]_vars


-----------------------------------------------------------------------------
(* Claims about the input conditioner. *)

\* The up button is physically held: the previous sample and this one are true.
UpHeldSample(m) == OnMessageData(m) /\ hist.prevUp /\ read_vertical_velocity_up(m)

(* C1: for a Button without a repeat timer (the start button), with no drain
   or reset in between, count equals the number of false->true transitions of
   the samples it was given, the sample before the first taken as false. *)
C1_CountEqualsRisingEdges == state.reset.count = hist.edges

\* Samples true, true, false, true were counted: two edges, the button held.
C1_Witness ==
    /\ hist.edges = 2
    /\ state.reset.count = 2
    /\ hist.prevStart
    /\ state.reset.pressed

(* C2: for a Button with a repeat timer that is held continuously, a true
   sample arriving before the deadline set by the last increment has elapsed
   neither clears pressed nor increments count. *)
C2_NoRepeatBeforeDeadline ==
    [][\A m \in ButtonMsgs :
         (/\ UpHeldSample(m)
          /\ state.vertical_velocity_up.pressed
          /\ state.vertical_velocity_up.deadline.some
          /\ now < state.vertical_velocity_up.deadline.val)
         => (/\ state'.vertical_velocity_up.pressed
             /\ state'.vertical_velocity_up.count = state.vertical_velocity_up.count)]_vars

(* C3: for a Button with a repeat timer that is held continuously, the first
   true sample arriving after the deadline has elapsed re-triggers: count is
   incremented again and a new deadline is set. *)
C3_RepeatAfterDeadline ==
    [][\A m \in ButtonMsgs :
         (/\ UpHeldSample(m)
          /\ state.vertical_velocity_up.pressed
          /\ state.vertical_velocity_up.deadline.some
          /\ now >= state.vertical_velocity_up.deadline.val)
         => (/\ state'.vertical_velocity_up.count = state.vertical_velocity_up.count + 1
             /\ state'.vertical_velocity_up.deadline = Some(now + RepeatMs))]_vars

\* Every increment of the up and down counters is either drained or pending.
DrainConservation ==
    /\ hist.drainedUp + state.vertical_velocity_up.count = hist.incUp
    /\ hist.drainedDown + state.vertical_velocity_down.count = hist.incDown

(* C4: under every interleaving of update_from_msg and
   get_and_reset_vertical_velocity_delta, a drain returns 0.2 * (up - down),
   leaves both counts at 0, and the drained counts plus the pending counts
   equal the increments made: none is lost, none is returned twice. *)
C4_DrainExactlyOnce ==
    /\ []DrainConservation
    /\ [][TickTarget =>
            /\ tick'.delta = 20 * (state.vertical_velocity_up.count
                                   - state.vertical_velocity_down.count)
            /\ state'.vertical_velocity_up.count = 0
            /\ state'.vertical_velocity_down.count = 0]_vars

\* A drain returned -0.2 for one down press, and an up press made since is pending.
C4_Witness ==
    /\ tick.pc = "strafe"
    /\ tick.delta = -20
    /\ hist.drainedDown = 1
    /\ hist.drainedUp = 0
    /\ state.vertical_velocity_up.count = 1

(* C5: the control values one step() consumes come from one sample: step()
   never observes the strafe of one sample with the rotate of another.  The
   samples delivered carry one raw value on all four axes, so the values of
   one sample satisfy rotate = <<-strafe.x, -strafe.y, 0>>. *)
C5_StepReadsOneSample ==
    tick.pc = "sleep" => tick.rotate = <<-tick.strafe[1], -tick.strafe[2], 0>>

(* C6: a sample that does not decode or lacks a mapped axis/button index is
   dropped without panicking and leaves the whole control state as it was. *)
C6_MalformedSampleDropped ==
    [][\A m \in SnapshotMsgs :
         (Malformed(m) /\ OnMessageData(m))
         => (state' = state /\ listener' # "panicked")]_vars

-----------------------------------------------------------------------------
(* Claims about the rate controller and the flight dynamics. *)

(* C8: compute_throttle returns a value in [0, 1] for any finite target, any
   finite current velocity, mass > 0, dt > 0 and tilt in [0, pi/2), after any
   earlier sequence of compute_throttle and adjust_target calls. *)
C8_ThrottleInUnitRange ==
    (ctl.calls > 0 /\ ctl.pre /\ FLe(F(0), ctl.tilt) /\ FLt(ctl.tilt, F(157)))
    => (IsFinite(ctl.throttle) /\ ctl.throttle.v >= 0 /\ ctl.throttle.v <= 100)

\* thrust * cos(tilt) is at most 2% of the thrust: the tilt is within about
\* one degree of 90 degrees.
NearZeroDenominator(rod, tilt) ==
    /\ IsFinite(tilt)
    /\ FLe(FAbs(FMul(rod.thrust, FCos(tilt))), FMul(rod.thrust, F(2)))

(* C9, for compute_throttle: called with thrust * cos(tilt) near zero and
   finite target and velocity, it returns a finite throttle in [0, 1], neither
   an infinity nor NaN. *)
C9_NearVerticalThrottleFinite ==
    (ctl.calls > 0 /\ ctl.pre /\ NearZeroDenominator(ctl.rod, ctl.tilt))
    => (IsFinite(ctl.throttle) /\ ctl.throttle.v >= 0 /\ ctl.throttle.v <= 100)

(* C7: fuel_mass is never negative, and no step() call with dt > 0 increases
   it: after every step it is at most what it was before the step, and the
   step that would consume more than is left leaves exactly 0. *)
C7_FuelFlooredAndNonIncreasing ==
    /\ IsFinite(lander.fuel_mass)
    /\ lander.fuel_mass.v >= 0
    /\ FLe(lander.fuel_mass, last.fuel_before)
    /\ (last.steps > 0 /\ FGt(last.fuel_consumed, last.fuel_before))
       => lander.fuel_mass = F(0)

\* The last step burned with less fuel left than it would consume: the tank is dry.
C7_Witness ==
    /\ last.steps > 0
    /\ last.burning
    /\ FGt(last.throttle, F(0))
    /\ FGt(last.fuel_before, F(0))
    /\ FLt(last.fuel_before, last.fuel_consumed)
    /\ lander.fuel_mass = F(0)

-----------------------------------------------------------------------------
(* Claims about the landing evaluator. *)

\* The i-th criterion of the report passes: its actual value is at most its max.
Passes(i) == report.val.criteria[i].actual.v <= report.val.criteria[i].max.v

\* The criteria of the report that fail.
Failing == {i \in 1..5 : ~Passes(i)}

(* C10: the criteria are evaluated in the order vertical speed, horizontal
   speed, tilt, angular speed, distance.  The status is Landed iff all five
   pass, Crashed iff one of the first four fails whatever the distance, Missed
   iff the first four pass and the distance fails; the remark is the one of
   the first failing criterion in that order. *)
C10_StatusFromFirstFailure ==
    report.some =>
        /\ [i \in 1..5 |-> report.val.criteria[i].type]
             = <<"VerticalSpeed", "HorizontalSpeed", "Tilt", "AngularSpeed",
                 "DistanceFromLandingZone">>
        /\ (report.val.status = "Landed") <=> (Failing = {})
        /\ (report.val.status = "Crashed") <=> (Failing \cap (1..4) # {})
        /\ (report.val.status = "Missed") <=> (Failing = {5})
        /\ report.val.status \in {"Landed", "Crashed", "Missed"}
        /\ \A i \in Failing :
             (\A j \in Failing : i <= j)
             => report.val.summary = report.val.criteria[i].type
        /\ (Failing = {}) => report.val.summary = "The eagle has landed."

\* A report of a vehicle that is too tilted, spinning and outside the zone:
\* Crashed, with the remark for the tilt.
C10_Witness ==
    /\ report.some
    /\ Failing = {3, 4, 5}
    /\ report.val.status = "Crashed"
    /\ report.val.summary = "Tilt"

\* 2 * (max - actual) / max of the i-th criterion of the report, in hundredths.
Contribution(i) ==
    2 * TruncDiv(100 * (report.val.criteria[i].max.v - report.val.criteria[i].actual.v),
                 report.val.criteria[i].max.v)

(* C11: the score of a report is the sum over its five criteria of
   2 * (max - actual) / max, the negative contributions of the failing
   criteria included, whatever the status and the first failure. *)
C11_ScoreSumsAllCriteria ==
    report.some =>
        report.val.score
          = F(Contribution(1) + Contribution(2) + Contribution(3)
              + Contribution(4) + Contribution(5))

\* A Crashed report whose score holds the penalty of the failing vertical
\* speed (5.0 against 3.0) and the credit of the four criteria that pass.
C11_Witness ==
    /\ report.some
    /\ Failing = {1}
    /\ report.val.status = "Crashed"
    /\ Contribution(1) < 0
    /\ report.val.score = F(Contribution(1) + 800)

\* The planar (x, y) offset of the lander from the zone center is within the
\* zone radius: offset^2 <= radius^2, in hundredths.
PlanarOffsetWithinRadius ==
    lander.position[1].v * lander.position[1].v
      + lander.position[2].v * lander.position[2].v
      <= (100 * lander.landing_zone_radius) * (100 * lander.landing_zone_radius)

(* C12: the distance criterion measures the planar (x, y) distance from the
   zone center: the vertical coordinate at touchdown does not influence it,
   and a lander whose planar offset is within the radius is never Missed. *)
C12_DistanceIsPlanar ==
    (report.some /\ PlanarOffsetWithinRadius)
    => (Passes(5) /\ report.val.status # "Missed")

(* C13: in a Landed report each of the five criteria contributes a margin
   that is not negative (and at most 2), so the score is in [0, 10]. *)
C13_LandedScoreInRange ==
    (report.some /\ report.val.status = "Landed")
    => /\ \A i \in 1..5 : Contribution(i) >= 0 /\ Contribution(i) <= 200
       /\ IsFinite(report.val.score)
       /\ report.val.score.v >= 0
       /\ report.val.score.v <= 1000

\* The touchdown at 2.9 m/s, level, without horizontal speed or spin, at the
\* center of the zone: Landed, with the score 2 * 0.03 + 2 + 2 + 2 + 2.
C13_Witness ==
    /\ report.some
    /\ report.val.status = "Landed"
    /\ lander.velocity = <<F(0), F(0), F(-290)>>
    /\ lander.rotation = F(0)
    /\ lander.angular_velocity = ZERO
    /\ lander.position = ZERO
    /\ report.val.score = F(806)

(* C14: two evaluations of the same final state by LandingReport::new give
   the same status, the same score and the same criteria; their remarks may
   differ, both being remarks of the first failing criterion. *)
C14_EvaluationRepeatable ==
    \A i, j \in 1..Len(trail.evaluated) :
        /\ trail.evaluated[i].status = trail.evaluated[j].status
        /\ trail.evaluated[i].score = trail.evaluated[j].score
        /\ trail.evaluated[i].criteria = trail.evaluated[j].criteria
        /\ trail.evaluated[i].criteria = ReportCriteria(lander)

\* Two evaluations of a vehicle that came down too fast: both Crashed with
\* the same score, with two different remarks.
C14_Witness ==
    /\ Len(trail.evaluated) = 2
    /\ trail.evaluated[1].status = "Crashed"
    /\ trail.evaluated[2].status = "Crashed"
    /\ trail.evaluated[1].score = trail.evaluated[2].score
    /\ trail.evaluated[1].remark = REMARKS["VerticalSpeed"][1]
    /\ trail.evaluated[2].remark = REMARKS["VerticalSpeed"][2]

(* C15: log_landing_report returns None and publishes no report whenever
   position.z > 0, and returns the status of a report it publishes whenever
   position.z <= 0. *)
C15_ReportOnlyWhenGrounded ==
    Len(trail.logged) > 0 =>
        /\ \A i \in 1..Len(trail.logged) :
              trail.logged[i].some <=> lander.position[3].v <= 0
        /\ report.some <=> lander.position[3].v <= 0
        /\ report.some => trail.logged[Len(trail.logged)] = Some(report.val.status)

\* log_landing_report was called twice for a vehicle 5 m above the ground:
\* it returned None twice and no report is published.
C15_Witness ==
    /\ Len(trail.logged) = 2
    /\ lander.position[3] = F(500)
    /\ trail.logged = <<None, None>>
    /\ ~report.some

\* Lander::has_landed of lander.rs, asked of the lander of the game loop.
LoopHasLanded == FLe(game.lander.position[3], F(0))

\* C16: once the lander is grounded (z <= 0) the loop applies no step to it
\* and its state stays as it is, until a reset that was asked for replaces it.
C16_GroundedLanderFrozen ==
    [][LoopHasLanded =>
          \/ game'.lander = game.lander
          \/ IsResetPending(game.controls) /\ game'.lander = Apollo(StartPosition)]_vars

\* C17: has_landed is true exactly when z <= 0, and stop() zeroes the
\* velocity and the angular velocity and leaves the position, the orientation,
\* the fuel and the controller as they were.
C17_StopZeroesVelocitiesOnly ==
    /\ [](HasLanded(lander) <=> lander.position[3].v <= 0)
    /\ [][/\ lander'.velocity = ZERO
          /\ lander'.angular_velocity = ZERO
          /\ lander'.position = lander.position
          /\ lander'.rotation = lander.rotation
          /\ lander'.fuel_mass = lander.fuel_mass
          /\ lander'.rod = lander.rod]_vars

\* A grounded vehicle off center and tilted, stopped: it had a vertical speed.
C17_Witness ==
    /\ HasLanded(lander)
    /\ lander.velocity = ZERO
    /\ lander.angular_velocity = ZERO
    /\ lander.position = <<F(1500), F(0), F(-300)>>
    /\ lander.rotation = F(-30)

-----------------------------------------------------------------------------
(* Claims about soft_reset and hard_reset. *)

\* The pressed flags and the deadlines of the three buttons.
PressState(st) ==
    <<st.reset.pressed, st.reset.deadline,
      st.vertical_velocity_up.pressed, st.vertical_velocity_up.deadline,
      st.vertical_velocity_down.pressed, st.vertical_velocity_down.deadline>>

\* C20: soft_reset zeroes strafe, rotate and every count and leaves every
\* pressed flag and deadline as it was; so while the start button stays held
\* across a soft reset, true samples do not make get_reset_requested() true,
\* whereas a true sample that is the first after a hard_reset does.
C20_SoftResetKeepsPress ==
    /\ [](hist.heldAcross => ~GetResetRequested(state))
    /\ [](hist.hardThenTrue => GetResetRequested(state))
    /\ [][hist'.resets # hist.resets =>
            /\ state'.strafe = <<0, 0>>
            /\ state'.rotate = <<0, 0, 0>>
            /\ state'.reset.count = 0
            /\ state'.vertical_velocity_up.count = 0
            /\ state'.vertical_velocity_down.count = 0
            /\ ~hist'.firstAfterHard => PressState(state') = PressState(state)]_vars

\* The start button was held across a soft reset and a true sample has come
\* since: no reset is requested.  The up button keeps a deadline.
C20_Witness ==
    /\ hist.heldAcross
    /\ state.vertical_velocity_up.deadline.some
    /\ hist.sampledSince
    /\ hist.prevStart
    /\ state.reset.pressed
    /\ ~GetResetRequested(state)

-----------------------------------------------------------------------------
(* Claims about the target of the rate controller. *)

\* C19: the target is the initial target 0 plus every delta given to
\* adjust_target, with no clamping, however the adjust_target and
\* compute_throttle calls interleave: the exact sum while the deltas are
\* ordinary, and a value far out in the f32 range once a delta was;
\* compute_throttle leaves the target and the thrust reference as they were.
C19_TargetSumsDeltas ==
    /\ [](/\ ctl.big = 0 => RodTarget(ctl.rod) = F(ctl.small)
          /\ ctl.big > 0 => FGt(RodTarget(ctl.rod), F(FMax \div 2))
          /\ ctl.rod.thrust = F(APOLLO_LANDER_DCS_THRUST_N))
    /\ [][(ctl'.small = ctl.small /\ ctl'.big = ctl.big)
            => (ctl'.rod.target = ctl.rod.target /\ ctl'.rod.thrust = ctl.rod.thrust)]_vars

\* Two deltas of 0.2 m/s and a compute_throttle call: the target is 0.4 m/s.
C19_Witness ==
    /\ ctl.calls = 3
    /\ ctl.pre
    /\ ctl.small = 40
    /\ ctl.big = 0
    /\ RodTarget(ctl.rod) = F(40)

-----------------------------------------------------------------------------
(* Claims about the step with no control input. *)

\* The last step had zero strafe, zero rotate and no change of the target.
ZeroInputStep == last.steps > 0 /\ last.zero_input

\* The velocity a step of free fall leaves: the vertical velocity reduced by
\* 1.62 * dt, the horizontal velocity as it was.
FreeFallVelocity ==
    <<last.velocity_before[1],
      last.velocity_before[2],
      FAdd(last.velocity_before[3], FMul(F(MOON_GRAVITY), last.dt))>>

\* C18, as stated: a step with zero control input reduces the vertical
\* velocity by exactly 1.62 * dt and leaves the horizontal velocity unchanged.
C18_ZeroInputStepIsFreeFall == ZeroInputStep => lander.velocity = FreeFallVelocity

\* C18, amended: a step with zero control input in which the engine does not
\* fire (the tank is empty or the rate controller commands zero throttle)
\* reduces the vertical velocity by exactly 1.62 * dt and leaves the horizontal
\* velocity unchanged.
C18_ZeroInputEngineOffIsFreeFall ==
    (ZeroInputStep /\ (~last.burning \/ last.throttle = F(0)))
        => lander.velocity = FreeFallVelocity

\* A step of free fall from rest: the controller commanded no thrust.
C18_Witness ==
    /\ ZeroInputStep
    /\ last.throttle = F(0)
    /\ last.velocity_before = ZERO
    /\ FLt(lander.velocity[3], F(0))
    /\ lander.velocity = FreeFallVelocity

-----------------------------------------------------------------------------
(* Claims about the reset request. *)

\* C21: the reset request is latched.  A PS press heard by the listener sets
\* is_reset_pending and a counted start press sets get_reset_requested; the
\* flag is cleared by nothing but the reset of the tick loop (do_reset, or
\* Controls::reset), in particular not by a sample with the button released,
\* and after that reset it is false.
C21_ResetRequestLatched ==
    /\ [](hist.edges > 0 => GetResetRequested(state))
    /\ [][(GetResetRequested(state) /\ ~GetResetRequested(state'))
            => hist'.resets = hist.resets + 1]_vars
    /\ [][hist'.resets # hist.resets => ~GetResetRequested(state')]_vars
    /\ [][(game'.heard = "reset" /\ game'.msgs # game.msgs)
            => IsResetPending(game'.controls)]_vars
    /\ [][(IsResetPending(game.controls) /\ ~IsResetPending(game'.controls))
            => game.pc = "do_reset" /\ game'.pc = "thrust"]_vars
    /\ [][(game.pc = "do_reset" /\ game'.pc # "do_reset")
            => ~IsResetPending(game'.controls)]_vars

\* A start press was counted, a later sample had the button released, and a
\* reset is still requested.
C21_Witness ==
    /\ game.pc = "off"
    /\ hist.edges = 1
    /\ ~hist.prevStart
    /\ ~state.reset.pressed
    /\ GetResetRequested(state)

-----------------------------------------------------------------------------
(* Claims about the conditioned axis reading. *)

\* The dead zone in force: the configured one, 0.10 when none is configured.
DeadZoneInForce == IF axis.dead_zone.some THEN axis.dead_zone.val ELSE 10

\* The reading the rule gives: 0 inside the dead zone, the clamped value
\* outside, with the sign flipped for pitch and roll.
RuleReading ==
    LET value == IF Abs(axis.raw) < DeadZoneInForce THEN 0 ELSE Clamp(axis.raw, -100, 100)
    IN  IF axis.reader \in {"read_pitch", "read_roll"} THEN -value ELSE value

\* C22: for every raw value and every configured dead zone the reading is 0
\* when |raw| < dead_zone and clamp(raw, -1, 1) otherwise (sign flipped for
\* pitch and roll), and so lies in [-1, 1].
C22_ReadingFollowsRule ==
    axis.reading.some =>
        /\ axis.reading.val = RuleReading
        /\ axis.reading.val \in -100..100

-----------------------------------------------------------------------------
(* Claims about the carved landing zone. *)

Cells == (0..(TerrainWidth - 1)) \X (0..(TerrainWidth - 1))

\* The squared planar distance of a cell from the center asked for.
Dist2(cell) ==
    (cell[1] - terrain.center[1]) * (cell[1] - terrain.center[1])
    + (cell[2] - terrain.center[2]) * (cell[2] - terrain.center[2])

HeightBefore(cell) == HeightMapGet(terrain.before, cell[1], cell[2])

HeightAfter(cell) == HeightMapGet(terrain.hm, cell[1], cell[2])

\* The blend window lies inside the grid.
WindowInsideGrid ==
    \A i \in 1..2 :
        /\ terrain.center[i] >= LANDING_ZONE_BLEND_RADIUS
        /\ terrain.center[i] + LANDING_ZONE_BLEND_RADIUS < TerrainWidth

\* t = clamp((d - radius) / 2, 0, 1) for the cell, in hundredths.
FactorOf(cell) ==
    IF Dist2(cell) <= LANDING_ZONE_RADIUS * LANDING_ZONE_RADIUS THEN 0
    ELSE IF Dist2(cell) >= LANDING_ZONE_BLEND_RADIUS * LANDING_ZONE_BLEND_RADIUS THEN 100
    ELSE (Dist(Dist2(cell)) - 100 * LANDING_ZONE_RADIUS) \div 2

\* Every cell within the radius has the center's height before the carving,
\* every cell at or beyond the blend radius its own, and a cell in between the
\* mix (1 - t) * center + t * own.
CarvedAsRuled ==
    \A cell \in Cells :
        /\ Dist2(cell) <= LANDING_ZONE_RADIUS * LANDING_ZONE_RADIUS
               => HeightAfter(cell) = HeightBefore(terrain.center)
        /\ Dist2(cell) >= LANDING_ZONE_BLEND_RADIUS * LANDING_ZONE_BLEND_RADIUS
               => HeightAfter(cell) = HeightBefore(cell)
        /\ HeightAfter(cell) = TruncDiv((100 - FactorOf(cell)) * HeightBefore(terrain.center)
                                         + FactorOf(cell) * HeightBefore(cell), 100)

\* C23: after carving a zone whose blend window lies inside the grid, cells
\* within the radius have exactly the center's pre-carve height, cells at or
\* beyond the blend radius keep theirs, cells in between have
\* (1 - t) * center + t * original with t = clamp((d - radius) / 2, 0, 1), and
\* t does not decrease with the distance.
C23_ZoneFlatAndBlended ==
    (terrain.status # "new" /\ WindowInsideGrid) =>
        /\ terrain.status = "done"
        /\ CarvedAsRuled
        /\ \A c1, c2 \in (terrain.center[1]..(terrain.center[1] + LANDING_ZONE_BLEND_RADIUS))
                            \X {terrain.center[2], terrain.center[2] + 3} :
               Dist2(c1) <= Dist2(c2) => FactorOf(c1) <= FactorOf(c2)

\* A carved zone: a cell within the radius was brought to the center's height,
\* a cell in the annulus to a height between, a cell beyond was left alone.
C23_Witness ==
    /\ terrain.status = "done"
    /\ WindowInsideGrid
    /\ \E cell \in Cells :
           /\ Dist2(cell) <= LANDING_ZONE_RADIUS * LANDING_ZONE_RADIUS
           /\ HeightBefore(cell) # HeightBefore(terrain.center)
           /\ HeightAfter(cell) = HeightBefore(terrain.center)
    /\ \E cell \in Cells :
           /\ FactorOf(cell) \in 1..99
           /\ HeightAfter(cell) # HeightBefore(cell)
           /\ HeightAfter(cell) # HeightBefore(terrain.center)

\* C24: with the center closer than the blend radius to a grid edge the
\* carving keeps to the cells of the grid and completes without a panic or an
\* arithmetic underflow: the cells of the grid are carved as ruled and no
\* other is touched.
C24_EdgeZoneCarvedInGrid ==
    (terrain.status # "new" /\ ~WindowInsideGrid) =>
        /\ terrain.status = "done"
        /\ CarvedAsRuled


-----------------------------------------------------------------------------
(* The parameter registry as a state machine: each step is one call of     *)
(* Parameters::set, which holds the write lock for the whole of            *)
(* Registry::set_parameters.                                               *)

\* One entry of a setParameters request.  Numbers arrive as JSON, so they
\* are finite f64 values; one too large for an f32 is cast to infinity.
SampleParameters ==
    { Parameter("gravity", Some(ValueNumber(F(160)))),
      Parameter("seed", Some(ValueString(8, 7))),
      Parameter("seed", Some(ValueString(4, 7))),
      Parameter("seed", None),
      Parameter("regenerate_seed", Some(ValueBool(FALSE))),
      Parameter("regenerate_seed", Some(ValueNumber(F(100)))),
      Parameter("landscape_width", Some(ValueNumber(F(10000)))),
      Parameter("landscape_width", Some(ValueNumber(F(500000)))),
      Parameter("landscape_width", Some(ValueNumber(F(5000)))),
      Parameter("landscape_width", None),
      Parameter("landing_zone_min_distance", Some(ValueNumber(F(9000)))),
      Parameter("landing_zone_min_distance", Some(ValueNumber(F(-500)))),
      Parameter("landing_zone_min_distance", None),
      Parameter("landing_zone_max_distance", Some(ValueNumber(F(2000)))),
      Parameter("landing_zone_max_distance", Some(ValueNumber(F(60000)))),
      Parameter("landing_zone_max_distance", None),
      Parameter("landing_zone_radius", Some(ValueNumber(F(300)))),
      Parameter("landing_zone_radius", Some(ValueNumber(F(6000)))),
      Parameter("landing_zone_radius", Some(ValueBool(TRUE))),
      Parameter("init_altitude", Some(ValueNumber(F(5000)))),
      Parameter("init_altitude", Some(ValueNumber(Inf(1)))),
      Parameter("init_vertical_velocity", Some(ValueNumber(F(500)))),
      Parameter("init_vertical_velocity", Some(ValueNumber(F(-3000)))),
      Parameter("init_vertical_velocity_target", Some(ValueNumber(F(-1000)))),
      Parameter("init_vertical_velocity_target", Some(ValueNumber(Inf(-1)))),
      Parameter("init_vertical_velocity_target", Some(ValueString(8, 7))) }

\* The requests made: every single entry, and some of two entries (a width
\* with a distance, either order; one name twice; an unknown name first).
SampleRequests ==
    { <<p>> : p \in SampleParameters }
    \cup { <<p, q>> : p \in { s \in SampleParameters : s.name = "landscape_width" },
                      q \in { s \in SampleParameters : s.name = "landing_zone_max_distance" } }
    \cup { <<q, p>> : p \in { s \in SampleParameters : s.name = "landscape_width" /\ s.value.some },
                      q \in { s \in SampleParameters : s.name = "landing_zone_min_distance" } }
    \cup { <<p, q>> : p, q \in { s \in SampleParameters : s.name = "landing_zone_radius" } }
    \cup { <<p, q>> : p \in { s \in SampleParameters : s.name = "gravity" },
                      q \in { s \in SampleParameters : s.name = "init_altitude" } }

InitParams ==
    /\ InitRest
    /\ InitAxis
    /\ InitTerrain
    /\ InitRegistry

\* Parameters::set
Set(params) ==
    /\ registry.calls < MaxSets
    /\ ~registry.panicked
    /\ LET r == SetParameters(registry.values, params)
       IN  registry' = [values |-> r.values, before |-> registry.values,
                        params |-> params, returned |-> r.returned,
                        panicked |-> r.panicked, calls |-> registry.calls + 1]
    /\ UNCHANGED <<controlVars, ctl, lander, last, report, trail, game, axis, terrain>>

ParametersSet == \E params \in SampleRequests : Set(params)

NextParams == ParametersSet

SpecParams == InitParams /\ [][NextParams]_vars

-----------------------------------------------------------------------------
(* Claims on the parameter registry. *)

\* The ranges the spec gives, in hundredths.
RangeBounded ==
    { [name |-> "landscape_width", lo |-> 10000, hi |-> 100000],
      [name |-> "landing_zone_radius", lo |-> 500, hi |-> 5000],
      [name |-> "init_altitude", lo |-> 10000, hi |-> 100000],
      [name |-> "init_vertical_velocity", lo |-> -2000, hi |-> 0],
      [name |-> "init_vertical_velocity_target", lo |-> -2000, hi |-> 0] }

CurrentF32(name) == registry.values[name].current.f

\* The request the last call was given was one number for this parameter.
AskedNumber(name) ==
    /\ Len(registry.params) = 1
    /\ registry.params[1].name = name
    /\ registry.params[1].value.some
    /\ registry.params[1].value.val.t = "number"

\* C25: after any sequence of set_parameters calls, landscape_width and
\* init_altitude are in [100, 1000], landing_zone_radius in [5, 50], and
\* init_vertical_velocity and its target in [-20, 0]; a number asked for below
\* the range is stored as the lower end, one above it as the upper end, and
\* one inside it as it is.
C25_RangeBoundedStayInRange ==
    \A r \in RangeBounded :
        /\ IsFinite(CurrentF32(r.name))
        /\ CurrentF32(r.name).v \in r.lo..r.hi
        /\ AskedNumber(r.name) =>
             LET asked == registry.params[1].value.val.f
             IN  CurrentF32(r.name) =
                     IF FLt(asked, F(r.lo)) THEN F(r.lo)
                     ELSE IF FGt(asked, F(r.hi)) THEN F(r.hi)
                     ELSE asked

\* A width of 5000 was asked for and 1000 is stored; an infinite altitude
\* was asked for before or after.
C25_Witness ==
    /\ AskedNumber("landscape_width")
    /\ registry.params[1].value.val.f = F(500000)
    /\ CurrentF32("landscape_width") = F(100000)
    /\ CurrentF32("init_altitude") = F(100000)

\* C28: after any sequence of set_parameters calls,
\* 0 <= landing_zone_min_distance <= landing_zone_max_distance
\*   <= landscape_width / 2.
C28_DistancesOrdered ==
    /\ FLe(F(0), CurrentF32("landing_zone_min_distance"))
    /\ FLe(CurrentF32("landing_zone_min_distance"),
           CurrentF32("landing_zone_max_distance"))
    /\ FLe(CurrentF32("landing_zone_max_distance"),
           FDiv(CurrentF32("landscape_width"), F(200)))

\* The nine parameters and the kind of value each holds.
ParameterKinds ==
    [seed |-> "string", regenerate_seed |-> "bool", landscape_width |-> "number",
     landing_zone_min_distance |-> "number", landing_zone_max_distance |-> "number",
     landing_zone_radius |-> "number", init_altitude |-> "number",
     init_vertical_velocity |-> "number", init_vertical_velocity_target |-> "number"]

\* The entry names a parameter and carries no value, or a value of the
\* parameter's kind (for the seed, a string of 8 bytes).
Accepted(p) ==
    /\ p.name \in DOMAIN ParameterKinds
    /\ p.value.some =>
         /\ p.value.val.t = ParameterKinds[p.name]
         /\ p.name = "seed" => p.value.val.len = 8

\* The names of the parameters the last call returned.
ReturnedNames == [i \in 1..Len(registry.returned) |-> registry.returned[i].name]

AcceptedNames ==
    LET kept == SelectSeq(registry.params, Accepted)
    IN  [i \in 1..Len(kept) |-> kept[i].name]

\* What set_parameters does with entries it does not accept, and with the
\* types: the returned list names the accepted entries in order, a parameter
\* no accepted entry names is as before, no value changes its type and the
\* call does not panic.
EntriesFiltered ==
    /\ ~registry.panicked
    /\ ReturnedNames = AcceptedNames
    /\ \A name \in DOMAIN registry.values :
         /\ registry.values[name].current.t = registry.values[name].default.t
         /\ registry.values[name].default = DefaultValues[name].default
         /\ (\A i \in 1..Len(registry.params) :
                Accepted(registry.params[i]) => registry.params[i].name # name)
              => registry.values[name] = registry.before[name]

\* The last request was one entry without value for a known parameter.
AskedDefault ==
    /\ Len(registry.params) = 1
    /\ registry.params[1].name \in DOMAIN ParameterKinds
    /\ ~registry.params[1].value.some

\* The default of a parameter held to the range the parameter had when the
\* call began: [0, landscape_width / 2] for the two distances.
DefaultInRange(name) ==
    LET default == DefaultValues[name].default
        half == FDiv(registry.before["landscape_width"].current.f, F(200))
    IN  IF name \in {"landing_zone_min_distance", "landing_zone_max_distance"}
           /\ FGt(default.f, half)
        THEN DataF32(half)
        ELSE default

\* C30 as stated: an entry with an unknown name or a value of the wrong type
\* (a seed string not 8 bytes long included) leaves the registry as it is and
\* is left out of the returned list; an entry without value restores the
\* parameter's default; no value ever changes its type, so the 'cannot
\* change data type' panic is never reached.
C30_EntryWithoutValueRestoresDefault ==
    /\ EntriesFiltered
    /\ AskedDefault =>
         registry.values[registry.params[1].name].current
             = DefaultValues[registry.params[1].name].default

\* C30 amended: as above, but an entry without value stores the default held
\* to the parameter's range, which for landing_zone_max_distance is below
\* the default 70 when landscape_width is below 140.
C30_EntryWithoutValueStoresClampedDefault ==
    /\ EntriesFiltered
    /\ AskedDefault =>
         registry.values[registry.params[1].name].current
             = DefaultInRange(registry.params[1].name)

\* With a width of 100, landing_zone_max_distance was sent without value and
\* is stored as 50.
C30_Witness ==
    /\ AskedDefault
    /\ registry.params[1].name = "landing_zone_max_distance"
    /\ registry.before["landscape_width"].current.f = F(10000)
    /\ CurrentF32("landing_zone_max_distance") = F(5000)

-----------------------------------------------------------------------------
(* Claims on the order and the stages of Lander::step. *)

\* The last step() call began with an empty tank.
SteppedDry == last.steps > 0 /\ last.before.fuel_mass = F(0)

\* The velocity the vehicle had before the last step, with that step's
\* strafe and gravity terms added in this order.
StrafeAndGravityOnly ==
    LET l == last.before
        strafe_force == VScale(Rotate(l.rotation, <<F(last.strafe[1]), F(last.strafe[2]), F(0)>>),
                               l.rcs_thrust)
        strafed == VAdd(l.velocity, VScale(VDivS(strafe_force, TotalMass(l)), last.dt))
    IN  VAdd(strafed, VScale(<<F(0), F(0), F(MOON_GRAVITY)>>, last.dt))

\* C26: a step() that begins with fuel_mass = 0 does not ask the rate
\* controller and fires no engine: the PID integral and previous error are
\* as before the step, the fuel is still 0, and the velocity is the one
\* before the step plus the strafe and gravity terms only.
C26_DryStepLeavesEngineAlone ==
    SteppedDry =>
        /\ ~last.burning
        /\ lander.rod.pid = last.before.rod.pid
        /\ lander.fuel_mass = F(0)
        /\ lander.velocity = StrafeAndGravityOnly

\* The tank ran empty in flight (the controller's integral is not one the
\* flight began with), and the third step or a later one began with it
\* empty and the stick deflected.
C26_Witness ==
    /\ SteppedDry
    /\ last.steps >= 3
    /\ last.strafe # <<0, 0>>
    /\ lander.rod.pid.integral \notin {F(0), F(120)}

\* dry + payload + fuel of the vehicle as the last step() call found it.
MassBefore == TotalMass(last.before)

\* The velocity after the last step, stage by stage from the vehicle as the
\* call found it: engine thrust at the throttle the controller gave (when
\* there was fuel), then strafe, then gravity, each over MassBefore.
VelocityInOrder ==
    LET l == last.before
        thrust_force == VScale(VScale(Rotate(l.rotation, <<F(0), F(0), F(100)>>),
                                      last.throttle),
                               l.dcs_thrust)
        thrusted == IF FGt(l.fuel_mass, F(0))
                    THEN VAdd(l.velocity, VScale(VDivS(thrust_force, MassBefore), last.dt))
                    ELSE l.velocity
        strafe_force == VScale(Rotate(l.rotation, <<F(last.strafe[1]), F(last.strafe[2]), F(0)>>),
                               l.rcs_thrust)
        strafed == VAdd(thrusted, VScale(VDivS(strafe_force, MassBefore), last.dt))
    IN  VAdd(strafed, VScale(<<F(0), F(0), F(MOON_GRAVITY)>>, last.dt))

\* The angular velocity after the last step: torque over MassBefore, then
\* the damping by 0.999.
AngularVelocityInOrder ==
    LET l == last.before
        torque == VScale(<<F(last.rotate[1]), F(last.rotate[2]), F(last.rotate[3])>>,
                         l.rcs_torque)
        inertia == VScale(APOLLO_LANDER_INERTIA, MassBefore)
        turned == VAdd(l.angular_velocity, VScale(VDiv(torque, inertia), last.dt))
    IN  <<Dampen(turned[1]), Dampen(turned[2]), Dampen(turned[3])>>

\* C27: one step() applies engine thrust (with fuel left), strafe, gravity,
\* torque, angular damping and then integrates: the position advances by dt
\* times the velocity that holds this tick's thrust, strafe and gravity, the
\* orientation by dt times the damped angular velocity, and the mass under
\* thrust, strafe and torque is dry + payload + fuel from before this tick's
\* fuel consumption.
C27_StepStagesInOrder ==
    last.steps > 0 =>
        /\ lander.velocity = VelocityInOrder
        /\ lander.angular_velocity = AngularVelocityInOrder
        /\ lander.position = VAdd(last.before.position, VScale(lander.velocity, last.dt))
        /\ lander.rotation =
               FAdd(last.before.rotation, FMul(lander.angular_velocity[1], last.dt))

\* A step that burned fuel, with stick input on both strafe and pitch.
C27_Witness ==
    /\ last.steps > 0
    /\ FGt(last.fuel_consumed, F(0))
    /\ lander.fuel_mass # last.before.fuel_mass
    /\ last.strafe # <<0, 0>>
    /\ last.rotate # <<0, 0, 0>>
    /\ lander.rotation # last.before.rotation

-----------------------------------------------------------------------------
(* Claims on the resets of the game loop of main.rs. *)

\* C29: from do_reset until a gamepad message that arrives after it is
\* processed, thrust and rotation are zero: the message that asked for the
\* reset does not write its thrust and rotation after they were cleared.
C29_ClearedUntilNextMessage ==
    game.cleared =>
        /\ game.controls.thrust = 0
        /\ game.controls.rotation = <<0, 0, 0>>
=============================================================================
